---- MODULE Spec2Model ----
(***************************************************************************)
(* A model of strainminer_logging: the tree of statistics records          *)
(* (contig -> loci window -> HCA / QBC / postprocess -> strips ->          *)
(* biparts / unassigned reads -> binary matrix stats), each class with its *)
(* constructor, its from_dict / from_dicts decoder and its to_dict /       *)
(* to_dicts encoder.                                                       *)
(*                                                                         *)
(* Python values are tagged records (field ty): document nodes are         *)
(* NoneType, int, bool, float, str, list and dict; objects carry their     *)
(* class name; a raised exception is an Error value; a generator           *)
(* expression that has not been consumed is a generator value.  A call     *)
(* that raises evaluates to the Error; an expression one of whose          *)
(* subexpressions raised evaluates to that Error.                          *)
(***************************************************************************)
EXTENDS Integers, Sequences, FiniteSets, TLC

VARIABLES
    x,      \* the object the producer holds (NoneV before it builds one)
    hist,   \* the elements given to x's lists, in the order they were given
    doc,    \* the document node in flight
    edits,  \* what was changed in doc after it was written
    res,    \* the result of decoding doc: the object, or the Error raised
    pc,     \* start, built, returned, encoded, corrupted, decoded, opened,
            \* dumping, written, failed
    df,     \* the boolean matrix given to BinMatrixStats.from_bin_dataframe
    calls,  \* the calls entered (by the decode, or on what x returned), in order
    file,   \* what a reader of the YAML file finds at the path
    heap,   \* the lists, dicts and objects that exist, each at its address
    env     \* the names of the caller and the address each is bound to

vars == <<x, hist, doc, edits, res, pc, df, calls, file, heap, env>>

(***************************************************************************)
(* Bounds of the model.                                                    *)
(***************************************************************************)
\* Longest collection the producer builds by append / extend / add.
MaxLen == 2
\* Largest row and column count of the boolean matrices given to
\* BinMatrixStats.from_bin_dataframe.
MaxRows == 3
MaxCols == 3
\* Most calls made in a row on the values an object returned.
MaxCalls == 2
\* Tokens the buffer of a file object holds before it is written out.
BufferSize == 24

(***************************************************************************)
(* Python values.                                                          *)
(***************************************************************************)
NoneV == [ty |-> "NoneType"]
IntV(n) == [ty |-> "int", i |-> n]
BoolV(b) == [ty |-> "bool", b |-> b]
\* A float is kept as the exact ratio num/den in lowest terms; den = 0 is nan.
FloatV(n, d) == [ty |-> "float", num |-> n, den |-> d]
NaN == FloatV(0, 0)
\* A str is the sequence of its characters.
StrV(cs) == [ty |-> "str", s |-> cs]
ListV(items) == [ty |-> "list", items |-> items]
\* A dict is the sequence of its <<key, value>> pairs in insertion order; keys
\* are unique.
DictV(kv) == [ty |-> "dict", kv |-> kv]

Error(exc, arg) == [ty |-> "Error", exc |-> exc, arg |-> arg]
IsErr(v) == v.ty = "Error"
IsNone(v) == v.ty = "NoneType"

\* A reference to the object at address a of the heap.
Ref(a) == [ty |-> "ref", a |-> a]
\* The names of a caller, none of them bound yet.
NoEnv == [source |-> NoneV, child |-> NoneV, other |-> NoneV, parent |-> NoneV,
          document |-> NoneV, decoded |-> NoneV]

Min(S) == CHOOSE m \in S : \A n \in S : m <= n

\* Python evaluates the expressions rs left to right and stops at the first one
\* that raises: the tuple of the values, or the first Error.
Chain(rs) ==
    IF \A i \in DOMAIN rs : ~IsErr(rs[i])
    THEN [ty |-> "tuple", items |-> rs]
    ELSE rs[CHOOSE i \in DOMAIN rs : IsErr(rs[i]) /\ \A j \in 1..(i - 1) : ~IsErr(rs[j])]

\* The argument tuple of a call whose arguments are the values vs.
Args(vs) == [ty |-> "tuple", items |-> vs]

HasKey(d, key) == \E i \in DOMAIN d.kv : d.kv[i][1] = key
Lookup(d, key) == d.kv[CHOOSE i \in DOMAIN d.kv : d.kv[i][1] = key][2]

\* d.get(key) in place of d[key]: None for a missing key.
Subscript_get(d, key) ==
    IF IsErr(d) THEN d
    ELSE IF d.ty = "dict"
    THEN IF HasKey(d, key) THEN Lookup(d, key) ELSE NoneV
    ELSE Error("TypeError", "subscript")

\* d[key] for a str key, d the evaluation of the subscripted expression: a
\* dict gives the value or KeyError(key); a list or a str takes integer
\* indices only, and None, int, bool and float are not subscriptable:
\* TypeError.
Subscript(d, key) ==
    IF IsErr(d) THEN d
    ELSE IF d.ty = "dict"
    THEN IF HasKey(d, key) THEN Lookup(d, key) ELSE Error("KeyError", key)
    ELSE Error("TypeError", "subscript")

\* iter(v): the elements of a list, the keys of a dict, the characters of a
\* str; any other node is not iterable.  (A key is kept as a one-token str:
\* no consumer looks inside it.)
Iter(v) ==
    CASE v.ty = "list" -> v.items
      [] v.ty = "dict" -> [i \in DOMAIN v.kv |-> StrV(<<v.kv[i][1]>>)]
      [] v.ty = "str" -> [i \in DOMAIN v.s |-> StrV(<<v.s[i]>>)]
      [] OTHER -> <<Error("TypeError", "iter")>>

Iterable(v) == v.ty \in {"list", "dict", "str"}

\* (fn(e) for e in src): the source expression src is evaluated and iter() is
\* applied to it when the generator is created; no element is decoded yet.
GenExp(fn, src) ==
    IF IsErr(src) THEN src
    ELSE IF Iterable(src) THEN [ty |-> "generator", fn |-> fn, src |-> Iter(src)]
    ELSE Error("TypeError", "iter")

\* The list of the values of a generator run to its end (c), or the Error of
\* the first element that raised.
ListOf(c) == IF IsErr(c) THEN c ELSE ListV(c.items)

\* `e if arg is not None else None`: arg is evaluated first, e only when arg
\* is not None.
IfNotNone(arg, e) == IF IsErr(arg) THEN arg ELSE IF ~IsNone(arg) THEN e ELSE NoneV

(***************************************************************************)
(* binmatrix.py                                                            *)
(***************************************************************************)
\* A constructor that makes the zeros count agree with the other counts.
BinMatrixStats_init_correcting(a) ==
    IF IsErr(a) THEN a
    ELSE [ty |-> "BinMatrixStats",
          number_of_rows |-> a.items[1],
          number_of_columns |-> a.items[2],
          number_of_ones |-> a.items[3],
          number_of_zeros |->
              IF \A i \in 1..3 : a.items[i].ty = "int"
              THEN IntV(a.items[1].i * a.items[2].i - a.items[3].i)
              ELSE a.items[4],
          density |-> a.items[5],
          sparsity |-> a.items[6]]

\* cls(...): a is the evaluation of the argument expressions.
BinMatrixStats_init(a) ==
    IF IsErr(a) THEN a
    ELSE [ty |-> "BinMatrixStats",
                number_of_rows |-> a.items[1],
                number_of_columns |-> a.items[2],
                number_of_ones |-> a.items[3],
                number_of_zeros |-> a.items[4],
                density |-> a.items[5],
                sparsity |-> a.items[6]]

\* A decoder that refuses a mapping with a key it does not read.
BinMatrixStats_from_dict_strict(bin_matrix_stats_dict) ==
    IF bin_matrix_stats_dict.ty = "dict" /\ Len(bin_matrix_stats_dict.kv) > 6
    THEN Error("ValueError", "unknown key")
    ELSE BinMatrixStats_init(Chain(<<Subscript(bin_matrix_stats_dict, "number_of_rows"),
                            Subscript(bin_matrix_stats_dict, "number_of_columns"),
                            Subscript(bin_matrix_stats_dict, "number_of_ones"),
                            Subscript(bin_matrix_stats_dict, "number_of_zeros"),
                            Subscript(bin_matrix_stats_dict, "density"),
                            Subscript(bin_matrix_stats_dict, "sparsity")>>))

BinMatrixStats_from_dict(bin_matrix_stats_dict) ==
    BinMatrixStats_init(Chain(<<Subscript(bin_matrix_stats_dict, "number_of_rows"),
                        Subscript(bin_matrix_stats_dict, "number_of_columns"),
                        Subscript(bin_matrix_stats_dict, "number_of_ones"),
                        Subscript(bin_matrix_stats_dict, "number_of_zeros"),
                        Subscript(bin_matrix_stats_dict, "density"),
                        Subscript(bin_matrix_stats_dict, "sparsity")>>))

\* list(iterable) for an iterable of BinMatrixStats: a list is copied, a
\* generator is run to its end.
list_BinMatrixStats(iterable) ==
    IF IsErr(iterable) THEN iterable
    ELSE IF iterable.ty = "generator"
    THEN ListOf(Chain([i \in DOMAIN iterable.src |-> BinMatrixStats_from_dict(iterable.src[i])]))
    ELSE ListV(iterable.items)

\* to_dict with the two counts written under each other's key.
BinMatrixStats_to_dict_swapped(self) ==
    DictV(<< <<"number_of_rows", self.number_of_rows>>,
             <<"number_of_columns", self.number_of_columns>>,
             <<"number_of_ones", self.number_of_zeros>>,
             <<"number_of_zeros", self.number_of_ones>>,
             <<"density", self.density>>,
             <<"sparsity", self.sparsity>> >>)

BinMatrixStats_to_dict(self) ==
    DictV(<< <<"number_of_rows", self.number_of_rows>>,
             <<"number_of_columns", self.number_of_columns>>,
             <<"number_of_ones", self.number_of_ones>>,
             <<"number_of_zeros", self.number_of_zeros>>,
             <<"density", self.density>>,
             <<"sparsity", self.sparsity>> >>)

(***************************************************************************)
(* strips/bipart.py                                                        *)
(***************************************************************************)
ZERO == [ty |-> "BiPartClass", name |-> "ZERO"]
ONE == [ty |-> "BiPartClass", name |-> "ONE"]

\* member.value
BiPartClass_value(self) == IF self = ZERO THEN IntV(0) ELSE IntV(1)

\* value == n in Python: an int, a bool (True == 1, False == 0) or a float
\* equal to n.
PyEqInt(value, n) ==
    CASE value.ty = "int" -> value.i = n
      [] value.ty = "bool" -> (IF value.b THEN 1 ELSE 0) = n
      [] value.ty = "float" -> value.den # 0 /\ value.num = n * value.den
      [] OTHER -> FALSE

\* A lookup that gives ONE for every value that is not 0.
BiPartClass_call_lenient(value) ==
    IF IsErr(value) THEN value
    ELSE IF PyEqInt(value, 0) THEN ZERO
    ELSE ONE

\* BiPartClass(value): the member whose value equals value, else ValueError.
BiPartClass_call(value) ==
    IF IsErr(value) THEN value
    ELSE IF PyEqInt(value, 0) THEN ZERO
    ELSE IF PyEqInt(value, 1) THEN ONE
    ELSE Error("ValueError", "BiPartClass")

\* A complement that returns the class it is called on.
BiPartClass_complement_same(self) == self

BiPartClass_complement(self) == BiPartClass_call(IntV(1 - BiPartClass_value(self).i))

\* cls(...): a is the evaluation of the argument expressions.
BiPartStats_init(a) ==
    IF IsErr(a) THEN a
    ELSE [ty |-> "BiPartStats",
                index |-> a.items[1],
                bipart_class |-> a.items[2],
                binmatrix_stats |-> a.items[3]]

BiPartStats_from_dict(d) ==
    BiPartStats_init(Chain(<<Subscript(d, "index"),
                     BiPartClass_call(Subscript(d, "class")),
                     BinMatrixStats_from_dict(Subscript(d, "binmatrix_stats"))>>))

\* list(iterable) that stops a generator after its first element.
list_BiPartStats_first_only(iterable) ==
    IF IsErr(iterable) THEN iterable
    ELSE IF iterable.ty = "generator"
    THEN ListOf(Chain([i \in DOMAIN iterable.src \cap {1} |->
                          BiPartStats_from_dict(iterable.src[i])]))
    ELSE ListV(iterable.items)

\* list(iterable) for an iterable of BiPartStats: a list is copied, a
\* generator is run to its end.
list_BiPartStats(iterable) ==
    IF IsErr(iterable) THEN iterable
    ELSE IF iterable.ty = "generator"
    THEN ListOf(Chain([i \in DOMAIN iterable.src |-> BiPartStats_from_dict(iterable.src[i])]))
    ELSE ListV(iterable.items)

BiPartStats_to_dict(self) ==
    DictV(<< <<"index", self.index>>,
             <<"class", BiPartClass_value(self.bipart_class)>>,
             <<"binmatrix_stats", BinMatrixStats_to_dict(self.binmatrix_stats)>> >>)

(***************************************************************************)
(* postprocess.py                                                          *)
(***************************************************************************)
\* cls(...): a is the evaluation of the argument expressions.
PostProcessStats_init(a) ==
    IF IsErr(a) THEN a
    ELSE [ty |-> "PostProcessStats",
                number_of_initial_haplotypes |-> a.items[1],
                number_of_low_quality_haplotypes |-> a.items[2],
                number_of_final_haplotypes |-> a.items[3]]

PostProcessStats_from_dict(d) ==
    PostProcessStats_init(Chain(<<Subscript(d, "number_of_initial_haplotypes"),
                          Subscript(d, "number_of_low_quality_haplotypes"),
                          Subscript(d, "number_of_final_haplotypes")>>))

PostProcessStats_to_dict(self) ==
    DictV(<< <<"number_of_initial_haplotypes", self.number_of_initial_haplotypes>>,
             <<"number_of_low_quality_haplotypes", self.number_of_low_quality_haplotypes>>,
             <<"number_of_final_haplotypes", self.number_of_final_haplotypes>> >>)

(***************************************************************************)
(* strips/qbc.py                                                           *)
(***************************************************************************)
\* cls(...): a is the evaluation of the argument expressions.
UnassignedReadStats_init(a) ==
    IF IsErr(a) THEN a
    ELSE [ty |-> "UnassignedReadStats",
                read_id |-> a.items[1],
                number_of_ones |-> a.items[2],
                numbers_of_zeros |-> a.items[3]]

UnassignedReadStats_from_dict(d) ==
    UnassignedReadStats_init(Chain(<<Subscript(d, "read_id"),
                             Subscript(d, "number_of_ones"),
                             Subscript(d, "number_of_zeros")>>))

\* list(iterable) for an iterable of UnassignedReadStats: a list is copied, a
\* generator is run to its end.
list_UnassignedReadStats(iterable) ==
    IF IsErr(iterable) THEN iterable
    ELSE IF iterable.ty = "generator"
    THEN ListOf(Chain([i \in DOMAIN iterable.src |-> UnassignedReadStats_from_dict(iterable.src[i])]))
    ELSE ListV(iterable.items)

UnassignedReadStats_to_dict(self) ==
    DictV(<< <<"read_id", self.read_id>>,
             <<"number_of_ones", self.number_of_ones>>,
             <<"number_of_zeros", self.numbers_of_zeros>> >>)

\* The fields assigned once the iterables are run to their end (l).
QBCStripStats_store(index, number_of_columns, l) ==
    IF IsErr(l) THEN l
    ELSE [ty |-> "QBCStripStats",
                index |-> index,
                number_of_columns |-> number_of_columns,
                bipart_stats |-> l.items[1],
                unassigned_reads |-> l.items[2]]

\* cls(...): a is the evaluation of the argument expressions.
QBCStripStats_init(a) ==
    IF IsErr(a) THEN a
    ELSE QBCStripStats_store(a.items[1],
                      a.items[2],
                      Chain(<<IF ~IsNone(a.items[3]) THEN list_BiPartStats(a.items[3])
                      ELSE ListV(<<>>),
                      IF ~IsNone(a.items[4]) THEN list_UnassignedReadStats(a.items[4])
                      ELSE ListV(<<>>)>>))

\* Both generators are created (their keys looked up, iter() applied) before
\* the constructor consumes the first of them.
QBCStripStats_from_dict(d) ==
    QBCStripStats_init(Chain(<<Subscript(d, "index"),
                       Subscript(d, "number_of_columns"),
                       GenExp("BiPartStats", Subscript(d, "bipart_stats")),
                       GenExp("UnassignedReadStats", Subscript(d, "unassigned_reads"))>>))

\* list(iterable) for an iterable of QBCStripStats: a list is copied, a
\* generator is run to its end.
list_QBCStripStats(iterable) ==
    IF IsErr(iterable) THEN iterable
    ELSE IF iterable.ty = "generator"
    THEN ListOf(Chain([i \in DOMAIN iterable.src |-> QBCStripStats_from_dict(iterable.src[i])]))
    ELSE ListV(iterable.items)

\* A setter that also forgets the unassigned reads.
QBCStripStats_set_number_of_columns_resetting(self, number_of_columns) ==
    [self EXCEPT !.number_of_columns = number_of_columns,
                 !.unassigned_reads = ListV(<<>>)]

QBCStripStats_set_number_of_columns(self, number_of_columns) ==
    [self EXCEPT !.number_of_columns = number_of_columns]

QBCStripStats_add_bipart_stats(self, bipart_stats) ==
    [self EXCEPT !.bipart_stats = ListV(Append(@.items, bipart_stats))]

QBCStripStats_add_unassigned_read(self, unassigned_read) ==
    [self EXCEPT !.unassigned_reads = ListV(Append(@.items, unassigned_read))]

QBCStripStats_to_dict(self) ==
    DictV(<< <<"index", self.index>>,
             <<"number_of_columns", self.number_of_columns>>,
             <<"bipart_stats",
               ListV([i \in DOMAIN self.bipart_stats.items |->
                         BiPartStats_to_dict(self.bipart_stats.items[i])])>>,
             <<"unassigned_reads",
               ListV([i \in DOMAIN self.unassigned_reads.items |->
                         UnassignedReadStats_to_dict(self.unassigned_reads.items[i])])>> >>)

\* cls(...): a is the evaluation of the argument expressions.
QBCTrashStripStats_init(a) ==
    IF IsErr(a) THEN a
    ELSE [ty |-> "QBCTrashStripStats",
                index |-> a.items[1],
                matrix_stats |-> a.items[2]]

QBCTrashStripStats_from_dict(d) ==
    QBCTrashStripStats_init(Chain(<<Subscript(d, "index"),
                            BinMatrixStats_from_dict(Subscript(d, "matrix_stats"))>>))

QBCTrashStripStats_to_dict(self) ==
    DictV(<< <<"index", self.index>>,
             <<"matrix_stats", BinMatrixStats_to_dict(self.matrix_stats)>> >>)

\* The fields assigned once the iterables are run to their end (l).
QBCStripStatsCollection_store(l) ==
    IF IsErr(l) THEN l
    ELSE [ty |-> "QBCStripStatsCollection",
                strip_stats |-> l]

\* cls(...): a is the evaluation of the argument expressions.
QBCStripStatsCollection_init(a) ==
    IF IsErr(a) THEN a
    ELSE QBCStripStatsCollection_store(IF ~IsNone(a.items[1]) THEN list_QBCStripStats(a.items[1])
                      ELSE ListV(<<>>))

QBCStripStatsCollection_from_dicts(strips_stats) ==
    QBCStripStatsCollection_init(Chain(<<GenExp("QBCStripStats", strips_stats)>>))

QBCStripStatsCollection_append(self, strip_stats) ==
    [self EXCEPT !.strip_stats = ListV(Append(@.items, strip_stats))]

QBCStripStatsCollection_to_dicts(self) ==
    ListV([i \in DOMAIN self.strip_stats.items |->
              QBCStripStats_to_dict(self.strip_stats.items[i])])

\* cls(...): a is the evaluation of the argument expressions.
QBCProcessStats_init(a) ==
    IF IsErr(a) THEN a
    ELSE [ty |-> "QBCProcessStats",
                high_quality_strips_stats |-> a.items[1],
                trash_strip_stats |-> a.items[2]]

QBCProcessStats_from_dict(d) ==
    QBCProcessStats_init(Chain(<<QBCStripStatsCollection_from_dicts(Subscript(d, "high_quality_strips_stats")),
                         IfNotNone(Subscript(d, "trash_strip_stats"), QBCTrashStripStats_from_dict(Subscript(d, "trash_strip_stats")))>>))

\* to_dict leaving the key of a None trash strip out.
QBCProcessStats_to_dict_omitting_null(self) ==
    DictV(<< <<"high_quality_strips_stats",
               QBCStripStatsCollection_to_dicts(self.high_quality_strips_stats)>> >>
          \o IF ~IsNone(self.trash_strip_stats)
             THEN << <<"trash_strip_stats", QBCTrashStripStats_to_dict(self.trash_strip_stats)>> >>
             ELSE << >>)

QBCProcessStats_to_dict(self) ==
    DictV(<< <<"high_quality_strips_stats",
               QBCStripStatsCollection_to_dicts(self.high_quality_strips_stats)>>,
             <<"trash_strip_stats",
               IF ~IsNone(self.trash_strip_stats)
               THEN QBCTrashStripStats_to_dict(self.trash_strip_stats)
               ELSE NoneV>> >>)

(***************************************************************************)
(* strips/hca.py                                                           *)
(***************************************************************************)
\* The fields assigned once the iterables are run to their end (l).
HCAPreStripStatsCollection_store(l) ==
    IF IsErr(l) THEN l
    ELSE [ty |-> "HCAPreStripStatsCollection",
                bin_matrix_stats |-> l]

\* cls(...): a is the evaluation of the argument expressions.
HCAPreStripStatsCollection_init(a) ==
    IF IsErr(a) THEN a
    ELSE HCAPreStripStatsCollection_store(IF ~IsNone(a.items[1]) THEN list_BinMatrixStats(a.items[1])
                      ELSE ListV(<<>>))

HCAPreStripStatsCollection_from_dicts(dicts) ==
    HCAPreStripStatsCollection_init(Chain(<<GenExp("BinMatrixStats", dicts)>>))

HCAPreStripStatsCollection_append(self, bin_matrix_stats) ==
    [self EXCEPT !.bin_matrix_stats = ListV(Append(@.items, bin_matrix_stats))]

HCAPreStripStatsCollection_extend(self, bin_matrix_stats) ==
    [self EXCEPT !.bin_matrix_stats = ListV(@.items \o bin_matrix_stats.items)]

HCAPreStripStatsCollection_to_dicts(self) ==
    ListV([i \in DOMAIN self.bin_matrix_stats.items |->
              BinMatrixStats_to_dict(self.bin_matrix_stats.items[i])])

\* The fields assigned once the iterables are run to their end (l).
LowQualityHCAStripStats_store(strip_number, number_of_columns, l) ==
    IF IsErr(l) THEN l
    ELSE [ty |-> "LowQualityHCAStripStats",
                strip_number |-> strip_number,
                number_of_columns |-> number_of_columns,
                bin_matrices_stats |-> l]

\* cls(...): a is the evaluation of the argument expressions.
LowQualityHCAStripStats_init(a) ==
    IF IsErr(a) THEN a
    ELSE LowQualityHCAStripStats_store(a.items[1],
                      a.items[2],
                      IF ~IsNone(a.items[3]) THEN list_BinMatrixStats(a.items[3])
                      ELSE ListV(<<>>))

\* The third argument is a list comprehension: it is run to its end before
\* the constructor is called.
LowQualityHCAStripStats_from_dict(dict_) ==
    LowQualityHCAStripStats_init(Chain(<<Subscript(dict_, "strip_number"),
                                 Subscript(dict_, "number_of_columns"),
                                 list_BinMatrixStats(GenExp("BinMatrixStats", Subscript(dict_, "bin_matrices_stats")))>>))

\* list(iterable) for an iterable of LowQualityHCAStripStats: a list is copied, a
\* generator is run to its end.
list_LowQualityHCAStripStats(iterable) ==
    IF IsErr(iterable) THEN iterable
    ELSE IF iterable.ty = "generator"
    THEN ListOf(Chain([i \in DOMAIN iterable.src |-> LowQualityHCAStripStats_from_dict(iterable.src[i])]))
    ELSE ListV(iterable.items)

LowQualityHCAStripStats_to_dict(self) ==
    DictV(<< <<"strip_number", self.strip_number>>,
             <<"number_of_columns", self.number_of_columns>>,
             <<"bin_matrices_stats",
               ListV([i \in DOMAIN self.bin_matrices_stats.items |->
                         BinMatrixStats_to_dict(self.bin_matrices_stats.items[i])])>> >>)

\* The fields assigned once the iterables are run to their end (l).
LowQualityHCAStripStatsCollection_store(l) ==
    IF IsErr(l) THEN l
    ELSE [ty |-> "LowQualityHCAStripStatsCollection",
                bin_matrix_stats |-> l]

\* cls(...): a is the evaluation of the argument expressions.
LowQualityHCAStripStatsCollection_init(a) ==
    IF IsErr(a) THEN a
    ELSE LowQualityHCAStripStatsCollection_store(IF ~IsNone(a.items[1]) THEN list_LowQualityHCAStripStats(a.items[1])
                      ELSE ListV(<<>>))

LowQualityHCAStripStatsCollection_from_dicts(dicts) ==
    LowQualityHCAStripStatsCollection_init(Chain(<<GenExp("LowQualityHCAStripStats", dicts)>>))

LowQualityHCAStripStatsCollection_append(self, bin_matrix_stats) ==
    [self EXCEPT !.bin_matrix_stats = ListV(Append(@.items, bin_matrix_stats))]

LowQualityHCAStripStatsCollection_extend(self, bin_matrix_stats) ==
    [self EXCEPT !.bin_matrix_stats = ListV(@.items \o bin_matrix_stats.items)]

LowQualityHCAStripStatsCollection_to_dicts(self) ==
    ListV([i \in DOMAIN self.bin_matrix_stats.items |->
              LowQualityHCAStripStats_to_dict(self.bin_matrix_stats.items[i])])

\* The fields assigned once the iterables are run to their end (l).
HCAStripStats_store(index, number_of_columns, l) ==
    IF IsErr(l) THEN l
    ELSE [ty |-> "HCAStripStats",
                index |-> index,
                number_of_columns |-> number_of_columns,
                bipart_stats |-> l]

\* cls(...): a is the evaluation of the argument expressions.
HCAStripStats_init(a) ==
    IF IsErr(a) THEN a
    ELSE HCAStripStats_store(a.items[1],
                      a.items[2],
                      IF ~IsNone(a.items[3]) THEN list_BiPartStats(a.items[3])
                      ELSE ListV(<<>>))

HCAStripStats_from_dict(d) ==
    HCAStripStats_init(Chain(<<Subscript(d, "index"),
                       Subscript(d, "number_of_columns"),
                       GenExp("BiPartStats", Subscript(d, "bipart_stats"))>>))

\* list(iterable) for an iterable of HCAStripStats: a list is copied, a
\* generator is run to its end.
list_HCAStripStats(iterable) ==
    IF IsErr(iterable) THEN iterable
    ELSE IF iterable.ty = "generator"
    THEN ListOf(Chain([i \in DOMAIN iterable.src |-> HCAStripStats_from_dict(iterable.src[i])]))
    ELSE ListV(iterable.items)

HCAStripStats_set_number_of_columns(self, number_of_columns) ==
    [self EXCEPT !.number_of_columns = number_of_columns]

\* add_bipart_stats inserting at the front.
HCAStripStats_add_bipart_stats_first(self, bipart_stats) ==
    [self EXCEPT !.bipart_stats = ListV(<<bipart_stats>> \o @.items)]

HCAStripStats_add_bipart_stats(self, bipart_stats) ==
    [self EXCEPT !.bipart_stats = ListV(Append(@.items, bipart_stats))]

HCAStripStats_to_dict(self) ==
    DictV(<< <<"index", self.index>>,
             <<"number_of_columns", self.number_of_columns>>,
             <<"bipart_stats",
               ListV([i \in DOMAIN self.bipart_stats.items |->
                         BiPartStats_to_dict(self.bipart_stats.items[i])])>> >>)

\* The fields assigned once the iterables are run to their end (l).
HCAStripStatsCollection_store(l) ==
    IF IsErr(l) THEN l
    ELSE [ty |-> "HCAStripStatsCollection",
                strip_stats |-> l]

\* cls(...): a is the evaluation of the argument expressions.
HCAStripStatsCollection_init(a) ==
    IF IsErr(a) THEN a
    ELSE HCAStripStatsCollection_store(IF ~IsNone(a.items[1]) THEN list_HCAStripStats(a.items[1])
                      ELSE ListV(<<>>))

HCAStripStatsCollection_from_dicts(strips_stats) ==
    HCAStripStatsCollection_init(Chain(<<GenExp("HCAStripStats", strips_stats)>>))

HCAStripStatsCollection_append(self, strip_stats) ==
    [self EXCEPT !.strip_stats = ListV(Append(@.items, strip_stats))]

HCAStripStatsCollection_to_dicts(self) ==
    ListV([i \in DOMAIN self.strip_stats.items |->
              HCAStripStats_to_dict(self.strip_stats.items[i])])

\* cls(...): a is the evaluation of the argument expressions.
HCAProcessStats_init(a) ==
    IF IsErr(a) THEN a
    ELSE [ty |-> "HCAProcessStats",
                low_quality_prestrips_stats |-> a.items[1],
                high_quality_prestrips_stats |-> a.items[2],
                low_quality_hca_strip_stats |-> a.items[3],
                high_quality_hca_strip_stats |-> a.items[4]]

HCAProcessStats_from_dict(process_stats) ==
    HCAProcessStats_init(Chain(<<HCAPreStripStatsCollection_from_dicts(Subscript(process_stats, "low_quality_prestrips_stats")),
                         HCAPreStripStatsCollection_from_dicts(Subscript(process_stats, "high_quality_prestrips_stats")),
                         LowQualityHCAStripStatsCollection_from_dicts(Subscript(process_stats, "low_quality_hca_strip_stats")),
                         HCAStripStatsCollection_from_dicts(Subscript(process_stats, "high_quality_hca_strip_stats"))>>))

HCAProcessStats_to_dict(self) ==
    DictV(<< <<"low_quality_prestrips_stats",
               HCAPreStripStatsCollection_to_dicts(self.low_quality_prestrips_stats)>>,
             <<"high_quality_prestrips_stats",
               HCAPreStripStatsCollection_to_dicts(self.high_quality_prestrips_stats)>>,
             <<"low_quality_hca_strip_stats",
               LowQualityHCAStripStatsCollection_to_dicts(self.low_quality_hca_strip_stats)>>,
             <<"high_quality_hca_strip_stats",
               HCAStripStatsCollection_to_dicts(self.high_quality_hca_strip_stats)>> >>)

(***************************************************************************)
(* loci_window.py                                                          *)
(***************************************************************************)
\* cls(...): a is the evaluation of the argument expressions.
LociWindowStats_init(a) ==
    IF IsErr(a) THEN a
    ELSE [ty |-> "LociWindowStats",
                start_pos |-> a.items[1],
                stop_pos |-> a.items[2]]

LociWindowStats_from_dict(dict_) ==
    LociWindowStats_init(Chain(<<Subscript(dict_, "start_pos"),
                         Subscript(dict_, "stop_pos")>>))

LociWindowStats_to_dict(self) ==
    DictV(<< <<"start_pos", self.start_pos>>, <<"stop_pos", self.stop_pos>> >>)

\* cls(...): a is the evaluation of the argument expressions.
LociWindowProcessStats_init(a) ==
    IF IsErr(a) THEN a
    ELSE [ty |-> "LociWindowProcessStats",
                loci_window_stats |-> a.items[1],
                hca_process_stats |-> a.items[2],
                qbc_process_stats |-> a.items[3],
                postprocess_stats |-> a.items[4]]

\* The four arguments are evaluated in order; each optional one first tests
\* `d[key] is not None`, then decodes d[key].
LociWindowProcessStats_from_dict(d) ==
    LociWindowProcessStats_init(Chain(<<LociWindowStats_from_dict(Subscript(d, "loci_window_stats")),
                                IfNotNone(Subscript(d, "hca_process_stats"), HCAProcessStats_from_dict(Subscript(d, "hca_process_stats"))),
                                IfNotNone(Subscript(d, "qbc_process_stats"), QBCProcessStats_from_dict(Subscript(d, "qbc_process_stats"))),
                                IfNotNone(Subscript(d, "postprocess_stats"), PostProcessStats_from_dict(Subscript(d, "postprocess_stats")))>>))

\* list(iterable) for an iterable of LociWindowProcessStats: a list is copied, a
\* generator is run to its end.
list_LociWindowProcessStats(iterable) ==
    IF IsErr(iterable) THEN iterable
    ELSE IF iterable.ty = "generator"
    THEN ListOf(Chain([i \in DOMAIN iterable.src |-> LociWindowProcessStats_from_dict(iterable.src[i])]))
    ELSE ListV(iterable.items)

\* to_dict writing a stage bundle without any strip as a null.
LociWindowProcessStats_to_dict_empty_as_null(self) ==
    DictV(<< <<"loci_window_stats", LociWindowStats_to_dict(self.loci_window_stats)>>,
             <<"hca_process_stats",
               IF ~IsNone(self.hca_process_stats)
                  /\ self.hca_process_stats.high_quality_hca_strip_stats.strip_stats.items # <<>>
               THEN HCAProcessStats_to_dict(self.hca_process_stats) ELSE NoneV>>,
             <<"qbc_process_stats",
               IF ~IsNone(self.qbc_process_stats)
                  /\ self.qbc_process_stats.high_quality_strips_stats.strip_stats.items # <<>>
               THEN QBCProcessStats_to_dict(self.qbc_process_stats) ELSE NoneV>>,
             <<"postprocess_stats",
               IF ~IsNone(self.postprocess_stats)
               THEN PostProcessStats_to_dict(self.postprocess_stats) ELSE NoneV>> >>)

LociWindowProcessStats_to_dict(self) ==
    DictV(<< <<"loci_window_stats", LociWindowStats_to_dict(self.loci_window_stats)>>,
             <<"hca_process_stats",
               IF ~IsNone(self.hca_process_stats)
               THEN HCAProcessStats_to_dict(self.hca_process_stats) ELSE NoneV>>,
             <<"qbc_process_stats",
               IF ~IsNone(self.qbc_process_stats)
               THEN QBCProcessStats_to_dict(self.qbc_process_stats) ELSE NoneV>>,
             <<"postprocess_stats",
               IF ~IsNone(self.postprocess_stats)
               THEN PostProcessStats_to_dict(self.postprocess_stats) ELSE NoneV>> >>)

\* The fields assigned once the iterables are run to their end (l).
LociWindowStatsCollection_store(l) ==
    IF IsErr(l) THEN l
    ELSE [ty |-> "LociWindowStatsCollection",
                all_loci_window_process_stats |-> l]

\* cls(...): a is the evaluation of the argument expressions.
LociWindowStatsCollection_init(a) ==
    IF IsErr(a) THEN a
    ELSE LociWindowStatsCollection_store(IF ~IsNone(a.items[1]) THEN list_LociWindowProcessStats(a.items[1])
                      ELSE ListV(<<>>))

LociWindowStatsCollection_from_dicts(dicts) ==
    LociWindowStatsCollection_init(Chain(<<GenExp("LociWindowProcessStats", dicts)>>))

LociWindowStatsCollection_append(self, loci_window_process_stats) ==
    [self EXCEPT !.all_loci_window_process_stats =
                     ListV(Append(@.items, loci_window_process_stats))]

LociWindowStatsCollection_extend(self, loci_window_process_stats_collection) ==
    [self EXCEPT !.all_loci_window_process_stats =
                     ListV(@.items \o loci_window_process_stats_collection.items)]

LociWindowStatsCollection_to_dicts(self) ==
    ListV([i \in DOMAIN self.all_loci_window_process_stats.items |->
              LociWindowProcessStats_to_dict(self.all_loci_window_process_stats.items[i])])

(***************************************************************************)
(* contig.py                                                               *)
(***************************************************************************)
\* cls(...): a is the evaluation of the argument expressions.
ContigStats_init(a) ==
    IF IsErr(a) THEN a
    ELSE [ty |-> "ContigStats",
                contig_name |-> a.items[1],
                contig_length |-> a.items[2]]

ContigStats_from_dict(d) ==
    ContigStats_init(Chain(<<Subscript(d, "contig_name"),
                     Subscript(d, "contig_length")>>))

ContigStats_to_dict(self) ==
    DictV(<< <<"contig_name", self.contig_name>>,
             <<"contig_length", self.contig_length>> >>)

\* cls(...): a is the evaluation of the argument expressions.
ContigProcessStats_init(a) ==
    IF IsErr(a) THEN a
    ELSE [ty |-> "ContigProcessStats",
                contig_stats |-> a.items[1],
                loci_windows_stats |-> a.items[2]]

ContigProcessStats_from_dict(d) ==
    ContigProcessStats_init(Chain(<<ContigStats_from_dict(Subscript(d, "contig_stats")),
                            LociWindowStatsCollection_from_dicts(Subscript(d, "loci_windows_stats"))>>))

\* list(iterable) that leaves out the elements that do not decode.
list_ContigProcessStats_skipping(iterable) ==
    IF IsErr(iterable) THEN iterable
    ELSE IF iterable.ty = "generator"
    THEN ListV(SelectSeq([i \in DOMAIN iterable.src |-> ContigProcessStats_from_dict(iterable.src[i])],
                         LAMBDA e : ~IsErr(e)))
    ELSE ListV(iterable.items)

\* list(iterable) for an iterable of ContigProcessStats: a list is copied, a
\* generator is run to its end.
list_ContigProcessStats(iterable) ==
    IF IsErr(iterable) THEN iterable
    ELSE IF iterable.ty = "generator"
    THEN ListOf(Chain([i \in DOMAIN iterable.src |-> ContigProcessStats_from_dict(iterable.src[i])]))
    ELSE ListV(iterable.items)

ContigProcessStats_to_dict(self) ==
    DictV(<< <<"contig_stats", ContigStats_to_dict(self.contig_stats)>>,
             <<"loci_windows_stats",
               LociWindowStatsCollection_to_dicts(self.loci_windows_stats)>> >>)

\* The fields assigned once the iterables are run to their end (l).
ContigProcessStatsCollection_store(l) ==
    IF IsErr(l) THEN l
    ELSE [ty |-> "ContigProcessStatsCollection", items |-> l.items]

\* The collection is a list subclass: its constructor is list's, which runs
\* the iterable it is given to its end.
ContigProcessStatsCollection_init(a) ==
    IF IsErr(a) THEN a
    ELSE ContigProcessStatsCollection_store(list_ContigProcessStats(a.items[1]))

ContigProcessStatsCollection_from_dicts(dicts) ==
    ContigProcessStatsCollection_init(Chain(<<GenExp("ContigProcessStats", dicts)>>))

ContigProcessStatsCollection_append(self, stats) ==
    [self EXCEPT !.items = Append(@, stats)]

ContigProcessStatsCollection_extend(self, iterable) ==
    [self EXCEPT !.items = @ \o iterable.items]

ContigProcessStatsCollection_to_dicts(self) ==
    ListV([i \in DOMAIN self.items |-> ContigProcessStats_to_dict(self.items[i])])

(***************************************************************************)
(* Every class's decoder and encoder, by class name.                       *)
(***************************************************************************)
Decode(cls, node) ==
    CASE cls = "BinMatrixStats" -> BinMatrixStats_from_dict(node)
      [] cls = "BiPartStats" -> BiPartStats_from_dict(node)
      [] cls = "UnassignedReadStats" -> UnassignedReadStats_from_dict(node)
      [] cls = "PostProcessStats" -> PostProcessStats_from_dict(node)
      [] cls = "HCAPreStripStatsCollection" -> HCAPreStripStatsCollection_from_dicts(node)
      [] cls = "LowQualityHCAStripStats" -> LowQualityHCAStripStats_from_dict(node)
      [] cls = "LowQualityHCAStripStatsCollection" ->
             LowQualityHCAStripStatsCollection_from_dicts(node)
      [] cls = "HCAStripStats" -> HCAStripStats_from_dict(node)
      [] cls = "HCAStripStatsCollection" -> HCAStripStatsCollection_from_dicts(node)
      [] cls = "HCAProcessStats" -> HCAProcessStats_from_dict(node)
      [] cls = "QBCStripStats" -> QBCStripStats_from_dict(node)
      [] cls = "QBCTrashStripStats" -> QBCTrashStripStats_from_dict(node)
      [] cls = "QBCStripStatsCollection" -> QBCStripStatsCollection_from_dicts(node)
      [] cls = "QBCProcessStats" -> QBCProcessStats_from_dict(node)
      [] cls = "LociWindowStats" -> LociWindowStats_from_dict(node)
      [] cls = "LociWindowProcessStats" -> LociWindowProcessStats_from_dict(node)
      [] cls = "LociWindowStatsCollection" -> LociWindowStatsCollection_from_dicts(node)
      [] cls = "ContigStats" -> ContigStats_from_dict(node)
      [] cls = "ContigProcessStats" -> ContigProcessStats_from_dict(node)
      [] cls = "ContigProcessStatsCollection" ->
             ContigProcessStatsCollection_from_dicts(node)

Encode(self) ==
    CASE self.ty = "BinMatrixStats" -> BinMatrixStats_to_dict(self)
      [] self.ty = "BiPartStats" -> BiPartStats_to_dict(self)
      [] self.ty = "UnassignedReadStats" -> UnassignedReadStats_to_dict(self)
      [] self.ty = "PostProcessStats" -> PostProcessStats_to_dict(self)
      [] self.ty = "HCAPreStripStatsCollection" -> HCAPreStripStatsCollection_to_dicts(self)
      [] self.ty = "LowQualityHCAStripStats" -> LowQualityHCAStripStats_to_dict(self)
      [] self.ty = "LowQualityHCAStripStatsCollection" ->
             LowQualityHCAStripStatsCollection_to_dicts(self)
      [] self.ty = "HCAStripStats" -> HCAStripStats_to_dict(self)
      [] self.ty = "HCAStripStatsCollection" -> HCAStripStatsCollection_to_dicts(self)
      [] self.ty = "HCAProcessStats" -> HCAProcessStats_to_dict(self)
      [] self.ty = "QBCStripStats" -> QBCStripStats_to_dict(self)
      [] self.ty = "QBCTrashStripStats" -> QBCTrashStripStats_to_dict(self)
      [] self.ty = "QBCStripStatsCollection" -> QBCStripStatsCollection_to_dicts(self)
      [] self.ty = "QBCProcessStats" -> QBCProcessStats_to_dict(self)
      [] self.ty = "LociWindowStats" -> LociWindowStats_to_dict(self)
      [] self.ty = "LociWindowProcessStats" -> LociWindowProcessStats_to_dict(self)
      [] self.ty = "LociWindowStatsCollection" -> LociWindowStatsCollection_to_dicts(self)
      [] self.ty = "ContigStats" -> ContigStats_to_dict(self)
      [] self.ty = "ContigProcessStats" -> ContigProcessStats_to_dict(self)
      [] self.ty = "ContigProcessStatsCollection" ->
             ContigProcessStatsCollection_to_dicts(self)

(***************************************************************************)
(* The order of evaluation of a decode: the from_dict / from_dicts calls   *)
(* entered while cls.from_dict(node) runs, in the order they are entered,  *)
(* followed by Raised when the decode ended with an exception.             *)
(***************************************************************************)
Arg(kind, key, cls) == [kind |-> kind, key |-> key, cls |-> cls]

\* The argument expressions of the constructor call in cls.from_dict, in the
\* order they are written: d[key] ("key"), BiPartClass(d[key]) ("enum"),
\* C.from_dict(d[key]) ("child"), C.from_dicts(d[key]) ("coll"),
\* C.from_dict(d[key]) if d[key] is not None else None ("opt"),
\* (C.from_dict(e) for e in d[key]) ("gen") and
\* [C.from_dict(e) for e in d[key]] ("listcomp").
from_dict_arguments(cls) ==
    CASE cls = "BinMatrixStats" ->
             <<Arg("key", "number_of_rows", ""), Arg("key", "number_of_columns", ""),
               Arg("key", "number_of_ones", ""), Arg("key", "number_of_zeros", ""),
               Arg("key", "density", ""), Arg("key", "sparsity", "")>>
      [] cls = "BiPartStats" ->
             <<Arg("key", "index", ""), Arg("enum", "class", "BiPartClass"),
               Arg("child", "binmatrix_stats", "BinMatrixStats")>>
      [] cls = "UnassignedReadStats" ->
             <<Arg("key", "read_id", ""), Arg("key", "number_of_ones", ""),
               Arg("key", "number_of_zeros", "")>>
      [] cls = "PostProcessStats" ->
             <<Arg("key", "number_of_initial_haplotypes", ""),
               Arg("key", "number_of_low_quality_haplotypes", ""),
               Arg("key", "number_of_final_haplotypes", "")>>
      [] cls = "LowQualityHCAStripStats" ->
             <<Arg("key", "strip_number", ""), Arg("key", "number_of_columns", ""),
               Arg("listcomp", "bin_matrices_stats", "BinMatrixStats")>>
      [] cls = "HCAStripStats" ->
             <<Arg("key", "index", ""), Arg("key", "number_of_columns", ""),
               Arg("gen", "bipart_stats", "BiPartStats")>>
      [] cls = "HCAProcessStats" ->
             <<Arg("coll", "low_quality_prestrips_stats", "HCAPreStripStatsCollection"),
               Arg("coll", "high_quality_prestrips_stats", "HCAPreStripStatsCollection"),
               Arg("coll", "low_quality_hca_strip_stats", "LowQualityHCAStripStatsCollection"),
               Arg("coll", "high_quality_hca_strip_stats", "HCAStripStatsCollection")>>
      [] cls = "QBCStripStats" ->
             <<Arg("key", "index", ""), Arg("key", "number_of_columns", ""),
               Arg("gen", "bipart_stats", "BiPartStats"),
               Arg("gen", "unassigned_reads", "UnassignedReadStats")>>
      [] cls = "QBCTrashStripStats" ->
             <<Arg("key", "index", ""), Arg("child", "matrix_stats", "BinMatrixStats")>>
      [] cls = "QBCProcessStats" ->
             <<Arg("coll", "high_quality_strips_stats", "QBCStripStatsCollection"),
               Arg("opt", "trash_strip_stats", "QBCTrashStripStats")>>
      [] cls = "LociWindowStats" ->
             <<Arg("key", "start_pos", ""), Arg("key", "stop_pos", "")>>
      [] cls = "LociWindowProcessStats" ->
             <<Arg("child", "loci_window_stats", "LociWindowStats"),
               Arg("opt", "hca_process_stats", "HCAProcessStats"),
               Arg("opt", "qbc_process_stats", "QBCProcessStats"),
               Arg("opt", "postprocess_stats", "PostProcessStats")>>
      [] cls = "ContigStats" ->
             <<Arg("key", "contig_name", ""), Arg("key", "contig_length", "")>>
      [] cls = "ContigProcessStats" ->
             <<Arg("child", "contig_stats", "ContigStats"),
               Arg("coll", "loci_windows_stats", "LociWindowStatsCollection")>>

\* The class whose from_dict the generator of cls.from_dicts applies.
from_dicts_element(cls) ==
    CASE cls \in {"HCAPreStripStatsCollection"} -> "BinMatrixStats"
      [] cls = "LowQualityHCAStripStatsCollection" -> "LowQualityHCAStripStats"
      [] cls = "HCAStripStatsCollection" -> "HCAStripStats"
      [] cls = "QBCStripStatsCollection" -> "QBCStripStats"
      [] cls = "LociWindowStatsCollection" -> "LociWindowProcessStats"
      [] cls = "ContigProcessStatsCollection" -> "ContigProcessStats"

HasFromDicts(cls) ==
    cls \in {"HCAPreStripStatsCollection", "LowQualityHCAStripStatsCollection",
             "HCAStripStatsCollection", "QBCStripStatsCollection",
             "LociWindowStatsCollection", "ContigProcessStatsCollection"}

\* A call entered.
Call(cls, fn) == <<cls, fn>>

\* The mark that ends the calls of an evaluation that raised.
Raised == <<"raise">>

\* No evaluation stops the ones that follow it.
HasRaised_never(c) == FALSE

\* The evaluation that made the calls c raised.
HasRaised(c) == c # <<>> /\ c[Len(c)] = Raised

\* The calls of an expression that makes none itself and has the value v.
NoCalls(v) == IF IsErr(v) THEN <<Raised>> ELSE <<>>

RECURSIVE ChainCallsFrom(_, _)
\* The expression that made the calls c is followed by those making cs[i],
\* cs[i + 1], ...: they are evaluated unless it raised.
ThenCalls(c, cs, i) == IF HasRaised(c) THEN c ELSE c \o ChainCallsFrom(cs, i)

ChainCallsFrom(cs, i) == IF i > Len(cs) THEN <<>> ELSE ThenCalls(cs[i], cs, i + 1)

\* The calls made while expressions, the i-th making the calls cs[i], are
\* evaluated left to right, up to the first that raised.
ChainCalls(cs) == ChainCallsFrom(cs, 1)

RECURSIVE DecodeCalls(_, _)
\* The calls made while list() runs the generator g to its end (none for a
\* value that is not a generator).
GeneratorCalls(g) ==
    IF g.ty # "generator" THEN NoCalls(g)
    ELSE ChainCalls([i \in DOMAIN g.src |-> DecodeCalls(g.fn, g.src[i])])

\* The calls made while the argument expression arg of a from_dict(d) is
\* evaluated: a generator expression decodes nothing yet.
ArgCalls(arg, d) ==
    CASE arg.kind = "key" -> NoCalls(Subscript(d, arg.key))
      [] arg.kind = "enum" -> NoCalls(BiPartClass_call(Subscript(d, arg.key)))
      [] arg.kind = "gen" -> NoCalls(GenExp(arg.cls, Subscript(d, arg.key)))
      [] arg.kind \in {"child", "coll"} ->
             IF IsErr(Subscript(d, arg.key)) THEN <<Raised>>
             ELSE DecodeCalls(arg.cls, Subscript(d, arg.key))
      [] arg.kind = "opt" ->
             IF IsErr(Subscript(d, arg.key)) THEN <<Raised>>
             ELSE IF IsNone(Subscript(d, arg.key)) THEN <<>>
             ELSE DecodeCalls(arg.cls, Subscript(d, arg.key))
      [] arg.kind = "listcomp" -> GeneratorCalls(GenExp(arg.cls, Subscript(d, arg.key)))

\* The calls made by the constructor called by a from_dict(d) whose argument
\* expressions are args: it runs the generators among its arguments, in the
\* order of its parameters.
ConstructorCalls(args, d) ==
    ChainCalls([i \in DOMAIN args |->
                   IF args[i].kind = "gen"
                   THEN GeneratorCalls(GenExp(args[i].cls, Subscript(d, args[i].key)))
                   ELSE <<>>])

\* The calls made by the body of a from_dict(d): the argument expressions
\* args are evaluated, then the constructor is called.
BodyCalls(args, d) ==
    ChainCalls(<<ChainCalls([i \in DOMAIN args |-> ArgCalls(args[i], d)]),
                 ConstructorCalls(args, d)>>)

\* The calls of cls.from_dict(node) (cls.from_dicts(node) for a collection).
DecodeCalls(cls, node) ==
    IF HasFromDicts(cls)
    THEN <<Call(cls, "from_dicts")>>
         \o GeneratorCalls(GenExp(from_dicts_element(cls), node))
    ELSE <<Call(cls, "from_dict")>> \o BodyCalls(from_dict_arguments(cls), node)

(***************************************************************************)
(* to_yaml: the file is opened for writing, which empties it; the tree is  *)
(* converted with to_dict / to_dicts; yaml.dump writes the text through    *)
(* the buffer of the file object; leaving the with block closes the file.  *)
(* The text is the sequence of the tokens yaml.dump emits.                 *)
(***************************************************************************)
\* The keys of the document format, as Python orders strings.
KeysSorted ==
    <<"bin_matrices_stats", "binmatrix_stats", "bipart_stats", "class",
      "contig_length", "contig_name", "contig_stats", "density",
      "hca_process_stats", "high_quality_hca_strip_stats",
      "high_quality_prestrips_stats", "high_quality_strips_stats",
      "index", "loci_window_stats", "loci_windows_stats",
      "low_quality_hca_strip_stats", "low_quality_prestrips_stats",
      "matrix_stats", "number_of_columns", "number_of_final_haplotypes",
      "number_of_initial_haplotypes",
      "number_of_low_quality_haplotypes", "number_of_ones",
      "number_of_rows", "number_of_zeros", "postprocess_stats",
      "qbc_process_stats", "read_id", "sparsity", "start_pos",
      "stop_pos", "strip_number", "trash_strip_stats",
      "unassigned_reads">>

Rank(key) == CHOOSE i \in DOMAIN KeysSorted : KeysSorted[i] = key

\* sorted(mapping.items()): the pairs by ascending key.
SortedPairs(kv) ==
    [i \in DOMAIN kv |->
        kv[CHOOSE j \in DOMAIN kv :
              Cardinality({l \in DOMAIN kv : Rank(kv[l][1]) < Rank(kv[j][1])}) = i - 1]]

RECURSIVE Concat(_, _)
\* The first n of the sequences ss, one after the other.
Concat(ss, n) == IF n = 0 THEN <<>> ELSE Concat(ss, n - 1) \o ss[n]

Token(kind, s) == [ty |-> "token", kind |-> kind, s |-> s]

RECURSIVE Represent(_, _)
\* The tokens of the pairs kv of a mapping, in the order given.
RepresentPairs(kv, sort_keys) ==
    Concat([i \in DOMAIN kv |-> <<Token("key", kv[i][1])>> \o Represent(kv[i][2], sort_keys)],
           Len(kv))

\* The tokens yaml emits for node: a mapping's pairs sorted by key when
\* sort_keys, in insertion order otherwise.
Represent(node, sort_keys) ==
    CASE node.ty = "dict" ->
             <<Token("mapping", "start")>>
             \o RepresentPairs(IF sort_keys THEN SortedPairs(node.kv) ELSE node.kv, sort_keys)
             \o <<Token("mapping", "end")>>
      [] node.ty = "list" ->
             <<Token("sequence", "start")>>
             \o Concat([i \in DOMAIN node.items |-> Represent(node.items[i], sort_keys)],
                       Len(node.items))
             \o <<Token("sequence", "end")>>
      [] OTHER -> <<node>>

\* yaml.dump with its default sort_keys=True.
yaml_dump_sorting(data, sort_keys) == Represent(data, TRUE)

\* yaml.dump(data, file, Dumper=Dumper, sort_keys=sort_keys): the text.
yaml_dump(data, sort_keys) == Represent(data, sort_keys)

\* A file holding text.
File(text) == [ty |-> "file", text |-> text]

\* The classes that define to_yaml.
HasToYaml(cls) ==
    cls \in {"HCAPreStripStatsCollection", "LowQualityHCAStripStatsCollection",
             "HCAStripStats", "HCAStripStatsCollection", "QBCTrashStripStats",
             "QBCStripStatsCollection", "ContigProcessStatsCollection"}

(***************************************************************************)
(* The values the producing pipeline hands to the constructors.            *)
(***************************************************************************)
BMA == BinMatrixStats_init(Args(<<IntV(4), IntV(3), IntV(5), IntV(7), FloatV(5, 12), FloatV(7, 12)>>))
BMB == BinMatrixStats_init(Args(<<IntV(2), IntV(1), IntV(2), IntV(0), FloatV(1, 1), FloatV(0, 1)>>))
SampleBinMatrixStats == {BMA, BMB}

Indexes == {IntV(0), IntV(1)}
Columns == {IntV(3), IntV(6)}

BPA == BiPartStats_init(Args(<<IntV(0), ZERO, BMA>>))
BPB == BiPartStats_init(Args(<<IntV(1), ONE, BMB>>))
SampleBiPartStats == {BPA, BPB}

URA == UnassignedReadStats_init(Args(<<StrV(<<"r", "1">>), IntV(3), IntV(1)>>))
URB == UnassignedReadStats_init(Args(<<StrV(<<"r", "2">>), IntV(0), IntV(2)>>))
SampleUnassignedReadStats == {URA, URB}

PPA == PostProcessStats_init(Args(<<IntV(5), IntV(2), IntV(3)>>))
PPB == PostProcessStats_init(Args(<<IntV(1), IntV(0), IntV(1)>>))
SamplePostProcessStats == {PPA, PPB}

PreEmpty == HCAPreStripStatsCollection_init(Args(<<NoneV>>))
PreAB == HCAPreStripStatsCollection_init(Args(<<ListV(<<BMA, BMB>>)>>))
SampleHCAPreStripStatsCollection == {PreEmpty, PreAB}

LQA == LowQualityHCAStripStats_init(Args(<<IntV(0), IntV(3), ListV(<<BMB, BMA>>)>>))
LQB == LowQualityHCAStripStats_init(Args(<<IntV(1), IntV(6), NoneV>>))
SampleLowQualityHCAStripStats == {LQA, LQB}

LQCEmpty == LowQualityHCAStripStatsCollection_init(Args(<<NoneV>>))
LQCA == LowQualityHCAStripStatsCollection_init(Args(<<ListV(<<LQA>>)>>))
SampleLowQualityHCAStripStatsCollection == {LQCEmpty, LQCA}

HSA == HCAStripStats_init(Args(<<IntV(0), IntV(3), ListV(<<BPA, BPB>>)>>))
HSB == HCAStripStats_init(Args(<<IntV(1), IntV(6), NoneV>>))
SampleHCAStripStats == {HSA, HSB}

HSCEmpty == HCAStripStatsCollection_init(Args(<<NoneV>>))
HSCA == HCAStripStatsCollection_init(Args(<<ListV(<<HSA>>)>>))
SampleHCAStripStatsCollection == {HSCEmpty, HSCA}

HCAEmpty == HCAProcessStats_init(Args(<<PreEmpty, PreEmpty, LQCEmpty, HSCEmpty>>))
HCAFull == HCAProcessStats_init(Args(<<PreAB, PreEmpty, LQCA, HSCA>>))
SampleHCAProcessStats == {NoneV, HCAEmpty, HCAFull}

QSA == QBCStripStats_init(Args(<<IntV(0), IntV(3), ListV(<<BPA, BPB>>), ListV(<<URA>>)>>))
QSB == QBCStripStats_init(Args(<<IntV(1), IntV(6), NoneV, NoneV>>))
SampleQBCStripStats == {QSA, QSB}

TRA == QBCTrashStripStats_init(Args(<<IntV(2), BMA>>))
SampleQBCTrashStripStats == {NoneV, TRA}

QSCEmpty == QBCStripStatsCollection_init(Args(<<NoneV>>))
QSCA == QBCStripStatsCollection_init(Args(<<ListV(<<QSA>>)>>))
SampleQBCStripStatsCollection == {QSCEmpty, QSCA}

QBCEmpty == QBCProcessStats_init(Args(<<QSCEmpty, NoneV>>))
QBCFull == QBCProcessStats_init(Args(<<QSCA, TRA>>))
QBCNoTrash == QBCProcessStats_init(Args(<<QSCA, NoneV>>))
SampleQBCProcessStats == {NoneV, QBCEmpty, QBCFull}

LWA == LociWindowStats_init(Args(<<IntV(0), IntV(99)>>))
LWB == LociWindowStats_init(Args(<<IntV(100), IntV(250)>>))
SampleLociWindowStats == {LWA, LWB}

WinNone == LociWindowProcessStats_init(Args(<<LWA, NoneV, NoneV, NoneV>>))
WinFull == LociWindowProcessStats_init(Args(<<LWB, HCAFull, QBCNoTrash, PPA>>))
SampleLociWindowProcessStats == {WinNone, WinFull}

WinsEmpty == LociWindowStatsCollection_init(Args(<<NoneV>>))
WinsOne == LociWindowStatsCollection_init(Args(<<ListV(<<WinNone>>)>>))
WinsTwo == LociWindowStatsCollection_init(Args(<<ListV(<<WinFull, WinNone>>)>>))
SampleLociWindowStatsCollection == {WinsEmpty, WinsTwo}

CSA == ContigStats_init(Args(<<StrV(<<"c", "1">>), IntV(1000)>>))
CSB == ContigStats_init(Args(<<StrV(<<"c", "2">>), IntV(250)>>))
SampleContigStats == {CSA, CSB}

CPA == ContigProcessStats_init(Args(<<CSA, WinsTwo>>))
CPB == ContigProcessStats_init(Args(<<CSB, WinsOne>>))
SampleContigProcessStats == {CPA, CPB}

(***************************************************************************)
(* The producer: it constructs one object, fills it, writes it with        *)
(* to_dict / to_dicts and reads the document back with from_dict /         *)
(* from_dicts.                                                             *)
(***************************************************************************)
SeqsUpTo(S, n) == UNION {[1..k -> S] : k \in 0..n}
Iterables(S) == {NoneV} \cup {ListV(q) : q \in SeqsUpTo(S, MaxLen)}
ItemsOf(iterable) == IF IsNone(iterable) THEN <<>> ELSE iterable.items

\* A boolean matrix: shape (rows, cols) and its cells, row by row.
DataFrame(r, c, cells) == [rows |-> r, cols |-> c, cells |-> cells]
NoDataFrame == DataFrame(0, 0, <<>>)
\* No file at the path.
NoFile == NoneV
\* The file an earlier run left at the path.
PreviousFile ==
    File(yaml_dump(ContigProcessStatsCollection_to_dicts(
                       ContigProcessStatsCollection_init(Args(<<ListV(<<CPB>>)>>))),
                   FALSE))

Init ==
    /\ x = NoneV
    /\ hist = [a |-> <<>>, b |-> <<>>]
    /\ doc = NoneV
    /\ edits = <<>>
    /\ res = NoneV
    /\ pc = "start"
    /\ df = NoDataFrame
    /\ calls = <<>>
    /\ file = PreviousFile
    /\ heap = <<>>
    /\ env = NoEnv

Built(obj, a, b) ==
    /\ pc = "start"
    /\ x' = obj
    /\ hist' = [a |-> a, b |-> b]
    /\ pc' = "built"
    /\ UNCHANGED <<doc, edits, res, df, calls, file, heap, env>>

\* The producer holds an object of class cls.
Holding(cls) == pc = "built" /\ x.ty = cls

Mutated(obj, a, b) ==
    /\ x' = obj
    /\ hist' = [a |-> hist.a \o a, b |-> hist.b \o b]
    /\ UNCHANGED <<doc, edits, res, pc, df, calls, file, heap, env>>

New_BinMatrixStats == \E m \in SampleBinMatrixStats :
    Built(BinMatrixStats_init(Args(<<m.number_of_rows, m.number_of_columns, m.number_of_ones,
                              m.number_of_zeros, m.density, m.sparsity>>)), <<>>, <<>>)

New_BiPartStats == \E i \in Indexes, c \in {ZERO, ONE}, m \in SampleBinMatrixStats :
    Built(BiPartStats_init(Args(<<i, c, m>>)), <<>>, <<>>)

New_UnassignedReadStats == \E u \in SampleUnassignedReadStats :
    Built(UnassignedReadStats_init(Args(<<u.read_id, u.number_of_ones, u.numbers_of_zeros>>)),
          <<>>, <<>>)

\* The counts a caller may give: the constructor takes any three integers.
Haplotypes == {IntV(0), IntV(1), IntV(2), IntV(3), IntV(5)}

New_PostProcessStats == \E initial \in Haplotypes, low \in Haplotypes, final \in Haplotypes :
    Built(PostProcessStats_init(Args(<<initial, low, final>>)), <<>>, <<>>)

New_HCAPreStripStatsCollection == \E it \in Iterables(SampleBinMatrixStats) :
    Built(HCAPreStripStatsCollection_init(Args(<<it>>)), ItemsOf(it), <<>>)

Do_HCAPreStripStatsCollection_append == \E m \in SampleBinMatrixStats :
    /\ Holding("HCAPreStripStatsCollection")
    /\ Len(x.bin_matrix_stats.items) < MaxLen
    /\ Mutated(HCAPreStripStatsCollection_append(x, m), <<m>>, <<>>)

Do_HCAPreStripStatsCollection_extend == \E q \in SeqsUpTo(SampleBinMatrixStats, MaxLen) :
    /\ Holding("HCAPreStripStatsCollection")
    /\ Len(x.bin_matrix_stats.items) + Len(q) <= MaxLen
    /\ Mutated(HCAPreStripStatsCollection_extend(x, ListV(q)), q, <<>>)

New_LowQualityHCAStripStats ==
    \E n \in Indexes, c \in Columns, it \in Iterables(SampleBinMatrixStats) :
        Built(LowQualityHCAStripStats_init(Args(<<n, c, it>>)), ItemsOf(it), <<>>)

New_LowQualityHCAStripStatsCollection ==
    \E it \in Iterables(SampleLowQualityHCAStripStats) :
        Built(LowQualityHCAStripStatsCollection_init(Args(<<it>>)), ItemsOf(it), <<>>)

Do_LowQualityHCAStripStatsCollection_append == \E e \in SampleLowQualityHCAStripStats :
    /\ Holding("LowQualityHCAStripStatsCollection")
    /\ Len(x.bin_matrix_stats.items) < MaxLen
    /\ Mutated(LowQualityHCAStripStatsCollection_append(x, e), <<e>>, <<>>)

Do_LowQualityHCAStripStatsCollection_extend ==
    \E q \in SeqsUpTo(SampleLowQualityHCAStripStats, MaxLen) :
        /\ Holding("LowQualityHCAStripStatsCollection")
        /\ Len(x.bin_matrix_stats.items) + Len(q) <= MaxLen
        /\ Mutated(LowQualityHCAStripStatsCollection_extend(x, ListV(q)), q, <<>>)

New_HCAStripStats ==
    \E i \in Indexes, c \in Columns, it \in Iterables(SampleBiPartStats) :
        Built(HCAStripStats_init(Args(<<i, c, it>>)), ItemsOf(it), <<>>)

Do_HCAStripStats_set_number_of_columns == \E c \in Columns :
    /\ Holding("HCAStripStats")
    /\ Len(calls) < MaxCalls
    /\ x' = HCAStripStats_set_number_of_columns(x, c)
    /\ calls' = Append(calls, Call("HCAStripStats", "set_number_of_columns"))
    /\ UNCHANGED <<hist, doc, edits, res, pc, df, file, heap, env>>

Do_HCAStripStats_add_bipart_stats == \E e \in SampleBiPartStats :
    /\ Holding("HCAStripStats")
    /\ Len(x.bipart_stats.items) < MaxLen
    /\ Mutated(HCAStripStats_add_bipart_stats(x, e), <<e>>, <<>>)

New_HCAStripStatsCollection == \E it \in Iterables(SampleHCAStripStats) :
    Built(HCAStripStatsCollection_init(Args(<<it>>)), ItemsOf(it), <<>>)

Do_HCAStripStatsCollection_append == \E e \in SampleHCAStripStats :
    /\ Holding("HCAStripStatsCollection")
    /\ Len(x.strip_stats.items) < MaxLen
    /\ Mutated(HCAStripStatsCollection_append(x, e), <<e>>, <<>>)

New_HCAProcessStats ==
    \E lp \in SampleHCAPreStripStatsCollection, hp \in SampleHCAPreStripStatsCollection,
       ls \in SampleLowQualityHCAStripStatsCollection,
       hs \in SampleHCAStripStatsCollection :
        Built(HCAProcessStats_init(Args(<<lp, hp, ls, hs>>)), <<>>, <<>>)

New_QBCStripStats ==
    \E i \in Indexes, c \in Columns, bs \in Iterables(SampleBiPartStats),
       us \in Iterables(SampleUnassignedReadStats) :
        Built(QBCStripStats_init(Args(<<i, c, bs, us>>)), ItemsOf(bs), ItemsOf(us))

Do_QBCStripStats_set_number_of_columns == \E c \in Columns :
    /\ Holding("QBCStripStats")
    /\ Len(calls) < MaxCalls
    /\ x' = QBCStripStats_set_number_of_columns(x, c)
    /\ calls' = Append(calls, Call("QBCStripStats", "set_number_of_columns"))
    /\ UNCHANGED <<hist, doc, edits, res, pc, df, file, heap, env>>

Do_QBCStripStats_add_bipart_stats == \E e \in SampleBiPartStats :
    /\ Holding("QBCStripStats")
    /\ Len(x.bipart_stats.items) < MaxLen
    /\ Mutated(QBCStripStats_add_bipart_stats(x, e), <<e>>, <<>>)

Do_QBCStripStats_add_unassigned_read == \E e \in SampleUnassignedReadStats :
    /\ Holding("QBCStripStats")
    /\ Len(x.unassigned_reads.items) < MaxLen
    /\ Mutated(QBCStripStats_add_unassigned_read(x, e), <<>>, <<e>>)

New_QBCTrashStripStats == \E i \in Indexes, m \in SampleBinMatrixStats :
    Built(QBCTrashStripStats_init(Args(<<i, m>>)), <<>>, <<>>)

New_QBCStripStatsCollection == \E it \in Iterables(SampleQBCStripStats) :
    Built(QBCStripStatsCollection_init(Args(<<it>>)), ItemsOf(it), <<>>)

Do_QBCStripStatsCollection_append == \E e \in SampleQBCStripStats :
    /\ Holding("QBCStripStatsCollection")
    /\ Len(x.strip_stats.items) < MaxLen
    /\ Mutated(QBCStripStatsCollection_append(x, e), <<e>>, <<>>)

New_QBCProcessStats ==
    \E hs \in SampleQBCStripStatsCollection, t \in SampleQBCTrashStripStats :
        Built(QBCProcessStats_init(Args(<<hs, t>>)), <<>>, <<>>)

New_LociWindowStats == \E w \in SampleLociWindowStats :
    Built(LociWindowStats_init(Args(<<w.start_pos, w.stop_pos>>)), <<>>, <<>>)

New_LociWindowProcessStats ==
    \E w \in SampleLociWindowStats, h \in SampleHCAProcessStats,
       q \in SampleQBCProcessStats, p \in {NoneV, PPA} :
        Built(LociWindowProcessStats_init(Args(<<w, h, q, p>>)), <<>>, <<>>)

New_LociWindowStatsCollection == \E it \in Iterables(SampleLociWindowProcessStats) :
    Built(LociWindowStatsCollection_init(Args(<<it>>)), ItemsOf(it), <<>>)

Do_LociWindowStatsCollection_append == \E e \in SampleLociWindowProcessStats :
    /\ Holding("LociWindowStatsCollection")
    /\ Len(x.all_loci_window_process_stats.items) < MaxLen
    /\ Mutated(LociWindowStatsCollection_append(x, e), <<e>>, <<>>)

Do_LociWindowStatsCollection_extend ==
    \E q \in SeqsUpTo(SampleLociWindowProcessStats, MaxLen) :
        /\ Holding("LociWindowStatsCollection")
        /\ Len(x.all_loci_window_process_stats.items) + Len(q) <= MaxLen
        /\ Mutated(LociWindowStatsCollection_extend(x, ListV(q)), q, <<>>)

New_ContigStats == \E c \in SampleContigStats :
    Built(ContigStats_init(Args(<<c.contig_name, c.contig_length>>)), <<>>, <<>>)

New_ContigProcessStats ==
    \E c \in SampleContigStats, w \in SampleLociWindowStatsCollection :
        Built(ContigProcessStats_init(Args(<<c, w>>)), <<>>, <<>>)

New_ContigProcessStatsCollection ==
    \E q \in SeqsUpTo(SampleContigProcessStats, MaxLen) :
        Built(ContigProcessStatsCollection_init(Args(<<ListV(q)>>)), q, <<>>)

Do_ContigProcessStatsCollection_append == \E e \in SampleContigProcessStats :
    /\ Holding("ContigProcessStatsCollection")
    /\ Len(x.items) < MaxLen
    /\ Mutated(ContigProcessStatsCollection_append(x, e), <<e>>, <<>>)

Do_ContigProcessStatsCollection_extend ==
    \E q \in SeqsUpTo(SampleContigProcessStats, MaxLen) :
        /\ Holding("ContigProcessStatsCollection")
        /\ Len(x.items) + Len(q) <= MaxLen
        /\ Mutated(ContigProcessStatsCollection_extend(x, ListV(q)), q, <<>>)

\* x.to_dict() / x.to_dicts()
\* A method that reads the list kept in the field `field`: op says what it
\* returns of it.
Method(name, op, field) == [name |-> name, op |-> op, field |-> field]

\* The methods of cls that return the length of one of its lists ("len"), its
\* element at an index ("getitem"), an iterator over it ("iter") or the list
\* itself ("list").
QueryMethods(cls) ==
    CASE cls \in {"HCAPreStripStatsCollection", "LowQualityHCAStripStatsCollection"} ->
             {Method("__len__", "len", "bin_matrix_stats"),
              Method("__iter__", "iter", "bin_matrix_stats"),
              Method("__getitem__", "getitem", "bin_matrix_stats")}
      [] cls \in {"HCAStripStatsCollection", "QBCStripStatsCollection"} ->
             {Method("__getitem__", "getitem", "strip_stats"),
              Method("__iter__", "iter", "strip_stats"),
              Method("__len__", "len", "strip_stats")}
      [] cls = "LociWindowStatsCollection" ->
             {Method("__len__", "len", "all_loci_window_process_stats"),
              Method("__iter__", "iter", "all_loci_window_process_stats"),
              Method("__getitem__", "getitem", "all_loci_window_process_stats")}
      [] cls = "HCAStripStats" ->
             {Method("__iter__", "iter", "bipart_stats"),
              Method("__len__", "len", "bipart_stats"),
              Method("__getitem__", "getitem", "bipart_stats")}
      [] cls = "QBCStripStats" ->
             {Method("iter_biparts", "iter", "bipart_stats"),
              Method("get_bipart", "getitem", "bipart_stats"),
              Method("number_of_biparts", "len", "bipart_stats"),
              Method("iter_unassigned_reads", "iter", "unassigned_reads"),
              Method("get_unassigned_read", "getitem", "unassigned_reads"),
              Method("number_of_unassigned_reads", "len", "unassigned_reads")}
      [] cls = "LowQualityHCAStripStats" ->
             {Method("bin_matrices_stats", "list", "bin_matrices_stats")}
      [] OTHER -> {}

\* The methods of cls that add to one of its lists: one element ("append") or
\* the elements of an iterable ("extend").
AddMethods(cls) ==
    CASE cls \in {"HCAPreStripStatsCollection", "LowQualityHCAStripStatsCollection"} ->
             {Method("append", "append", "bin_matrix_stats"),
              Method("extend", "extend", "bin_matrix_stats")}
      [] cls \in {"HCAStripStatsCollection", "QBCStripStatsCollection"} ->
             {Method("append", "append", "strip_stats")}
      [] cls = "LociWindowStatsCollection" ->
             {Method("append", "append", "all_loci_window_process_stats"),
              Method("extend", "extend", "all_loci_window_process_stats")}
      [] cls = "HCAStripStats" -> {Method("add_bipart_stats", "append", "bipart_stats")}
      [] cls = "QBCStripStats" ->
             {Method("add_bipart_stats", "append", "bipart_stats"),
              Method("add_unassigned_read", "append", "unassigned_reads")}
      [] OTHER -> {}

\* s[idx] on a list: indices count from 0, negative ones from the end.
ListGetItem(s, idx) ==
    IF idx >= 0 /\ idx < Len(s) THEN s[idx + 1]
    ELSE IF idx < 0 /\ idx >= 0 - Len(s) THEN s[Len(s) + idx + 1]
    ELSE Error("IndexError", "list index out of range")

\* What the call self.m(idx) returns (idx is used by "getitem" only).  An
\* iterator is a new object over the list; "list" returns the list object of
\* the field itself, not a copy: a reference to the field.
Query(self, m, idx) ==
    CASE m.op = "len" -> IntV(Len(self[m.field].items))
      [] m.op = "getitem" -> ListGetItem(self[m.field].items, idx)
      [] m.op = "iter" -> [ty |-> "iterator", items |-> self[m.field].items]
      [] m.op = "list" -> [ty |-> "reference", field |-> m.field]

\* The consumer calls one of the querying methods of x.
Do_query ==
    /\ pc = "built"
    /\ Len(calls) < MaxCalls
    /\ \E m \in QueryMethods(x.ty), idx \in (0 - 1)..MaxLen :
          /\ (m.op # "getitem") => (idx = 0)
          /\ res' = Query(x, m, idx)
          /\ calls' = Append(calls, Call(x.ty, m.name))
    /\ pc' = "returned"
    /\ UNCHANGED <<x, hist, doc, edits, df, file, heap, env>>

\* x.extend(iterable) / x.append(element) on an object whose class defines
\* no method of that name: the attribute lookup raises.
Do_missing_method ==
    /\ pc = "built"
    /\ Len(calls) < MaxCalls
    /\ \E name \in {"append", "extend"} :
          /\ AddMethods(x.ty) # {}
          /\ \A m \in AddMethods(x.ty) : m.name # name
          /\ res' = Error("AttributeError", name)
          /\ calls' = Append(calls, Call(x.ty, name))
    /\ pc' = "returned"
    /\ UNCHANGED <<x, hist, doc, edits, df, file, heap, env>>

\* The consumer appends an element to what the query returned: to the list
\* object itself (the one the field of x holds), or to the list it makes of
\* an iterator.
Do_append_to_returned ==
    /\ pc = "returned"
    /\ res.ty \in {"reference", "iterator"}
    /\ Len(calls) < MaxCalls
    /\ \E e \in SampleBinMatrixStats :
          IF res.ty = "reference"
          THEN /\ x' = [x EXCEPT ![res.field] = ListV(Append(@.items, e))]
               /\ res' = res
          ELSE /\ x' = x
               /\ res' = ListV(Append(res.items, e))
    /\ calls' = Append(calls, Call("list", "append"))
    /\ UNCHANGED <<hist, doc, edits, pc, df, file, heap, env>>

\* x.bipart_class().complement(), and .complement() again on what that
\* returned.
Do_BiPartClass_complement ==
    /\ x.ty = "BiPartStats"
    /\ pc \in {"built", "returned"}
    /\ Len(calls) < MaxCalls
    /\ res' = BiPartClass_complement(IF pc = "built" THEN x.bipart_class ELSE res)
    /\ calls' = Append(calls, Call("BiPartClass", "complement"))
    /\ pc' = "returned"
    /\ UNCHANGED <<x, hist, doc, edits, df, file, heap, env>>

ToDict ==
    /\ pc = "built"
    /\ doc' = Encode(x)
    /\ pc' = "encoded"
    /\ UNCHANGED <<x, hist, edits, res, df, calls, file, heap, env>>

\* type(x).from_dict(doc) / type(x).from_dicts(doc)
FromDict ==
    /\ pc \in {"encoded", "corrupted"}
    /\ res' = Decode(x.ty, doc)
    /\ calls' = DecodeCalls(x.ty, doc)
    /\ pc' = "decoded"
    /\ UNCHANGED <<x, hist, doc, edits, df, file, heap, env>>

Produce ==
    \/ New_BinMatrixStats
    \/ New_BiPartStats
    \/ New_UnassignedReadStats
    \/ New_PostProcessStats
    \/ New_HCAPreStripStatsCollection
    \/ Do_HCAPreStripStatsCollection_append
    \/ Do_HCAPreStripStatsCollection_extend
    \/ New_LowQualityHCAStripStats
    \/ New_LowQualityHCAStripStatsCollection
    \/ Do_LowQualityHCAStripStatsCollection_append
    \/ Do_LowQualityHCAStripStatsCollection_extend
    \/ New_HCAStripStats
    \/ Do_HCAStripStats_set_number_of_columns
    \/ Do_HCAStripStats_add_bipart_stats
    \/ New_HCAStripStatsCollection
    \/ Do_HCAStripStatsCollection_append
    \/ New_HCAProcessStats
    \/ New_QBCStripStats
    \/ Do_QBCStripStats_set_number_of_columns
    \/ Do_QBCStripStats_add_bipart_stats
    \/ Do_QBCStripStats_add_unassigned_read
    \/ New_QBCTrashStripStats
    \/ New_QBCStripStatsCollection
    \/ Do_QBCStripStatsCollection_append
    \/ New_QBCProcessStats
    \/ New_LociWindowStats
    \/ New_LociWindowProcessStats
    \/ New_LociWindowStatsCollection
    \/ Do_LociWindowStatsCollection_append
    \/ Do_LociWindowStatsCollection_extend
    \/ New_ContigStats
    \/ New_ContigProcessStats
    \/ New_ContigProcessStatsCollection
    \/ Do_ContigProcessStatsCollection_append
    \/ Do_ContigProcessStatsCollection_extend

(***************************************************************************)
(* The steps of to_yaml.                                                   *)
(***************************************************************************)
\* open(yaml_path, "w"): the file is created or emptied.
to_yaml_open ==
    /\ pc = "built"
    /\ HasToYaml(x.ty)
    /\ file' = File(<<>>)
    /\ pc' = "opened"
    /\ UNCHANGED <<x, hist, doc, edits, res, df, calls, heap, env>>

\* self.to_dicts() (self.to_dict()): the argument of yaml.dump.
to_yaml_to_dicts ==
    /\ pc = "opened"
    /\ doc' = Encode(x)
    /\ pc' = "dumping"
    /\ UNCHANGED <<x, hist, edits, res, df, calls, file, heap, env>>

\* yaml.dump writes; every BufferSize tokens the buffer of the file object is
\* written out.
to_yaml_write ==
    /\ pc = "dumping"
    /\ Len(file.text) + BufferSize < Len(yaml_dump(doc, FALSE))
    /\ file' = File(SubSeq(yaml_dump(doc, FALSE), 1, Len(file.text) + BufferSize))
    /\ UNCHANGED <<x, hist, doc, edits, res, pc, df, calls, heap, env>>

\* The write fails (the disk is full, the path is gone): OSError leaves
\* to_yaml, the with block closes the file with what was written out.
to_yaml_OSError ==
    /\ pc = "dumping"
    /\ res' = Error("OSError", "write")
    /\ pc' = "failed"
    /\ UNCHANGED <<x, hist, doc, edits, df, calls, file, heap, env>>

\* yaml.dump returns and the with block closes the file: the rest of the
\* buffer is written out.
to_yaml_close ==
    /\ pc = "dumping"
    /\ Len(file.text) + BufferSize >= Len(yaml_dump(doc, FALSE))
    /\ file' = File(yaml_dump(doc, FALSE))
    /\ pc' = "written"
    /\ UNCHANGED <<x, hist, doc, edits, res, df, calls, heap, env>>

to_yaml ==
    \/ to_yaml_open
    \/ to_yaml_to_dicts
    \/ to_yaml_write
    \/ to_yaml_OSError
    \/ to_yaml_close

\* What a consumer does with the object it holds.
Use ==
    \/ Do_query
    \/ Do_missing_method
    \/ Do_append_to_returned
    \/ Do_BiPartClass_complement

Next == Produce \/ Use \/ ToDict \/ FromDict \/ to_yaml

Spec == Init /\ [][Next]_vars

(***************************************************************************)
(* Documents that to_dict did not write: the document read back is the     *)
(* one written with one node replaced or one key removed (and, before      *)
(* that, possibly one element of a top-level sequence replaced by a        *)
(* scalar).  A path is the sequence of positions leading to a node: the    *)
(* index of a pair in a dict, of an element in a list.                     *)
(***************************************************************************)
RECURSIVE Paths(_)
Paths(node) ==
    {<<>>} \cup
    CASE node.ty = "dict" ->
             UNION {{<<i>> \o p : p \in Paths(node.kv[i][2])} : i \in DOMAIN node.kv}
      [] node.ty = "list" ->
             UNION {{<<i>> \o p : p \in Paths(node.items[i])} : i \in DOMAIN node.items}
      [] OTHER -> {}

RECURSIVE NodeAt(_, _)
NodeAt(node, path) ==
    IF path = <<>> THEN node
    ELSE IF node.ty = "dict" THEN NodeAt(node.kv[Head(path)][2], Tail(path))
    ELSE NodeAt(node.items[Head(path)], Tail(path))

RECURSIVE ReplaceAt(_, _, _)
ReplaceAt(node, path, r) ==
    IF path = <<>> THEN r
    ELSE IF node.ty = "dict"
    THEN DictV([node.kv EXCEPT ![Head(path)] = <<@[1], ReplaceAt(@[2], Tail(path), r)>>])
    ELSE ListV([node.items EXCEPT ![Head(path)] = ReplaceAt(@, Tail(path), r)])

\* The sequence s without its k-th element.
Without(s, k) == [i \in 1..(Len(s) - 1) |-> IF i < k THEN s[i] ELSE s[i + 1]]

\* The nodes a document can hold in place of the one that was written.
Replacements ==
    {NoneV, IntV(2), BoolV(TRUE), FloatV(1, 1), StrV(<<>>), StrV(<<"a">>),
     ListV(<<>>), ListV(<<IntV(7)>>), DictV(<<>>), DictV(<< <<"k", IntV(7)>> >>)}

\* One node of the document is not the one that was written.
ReplaceNode ==
    /\ pc = "encoded"
    /\ \E path \in Paths(doc), r \in Replacements :
          /\ r # NodeAt(doc, path)
          /\ doc' = ReplaceAt(doc, path, r)
          /\ edits' = Append(edits, [kind |-> "replace", path |-> path,
                                     was |-> NodeAt(doc, path).ty, now |-> r])
    /\ pc' = "corrupted"
    /\ UNCHANGED <<x, hist, res, df, calls, file, heap, env>>

\* One key of one mapping of the document is missing.
DropKey ==
    /\ pc = "encoded"
    /\ \E path \in {p \in Paths(doc) : NodeAt(doc, p).ty = "dict"} :
          \E k \in DOMAIN NodeAt(doc, path).kv :
              /\ doc' = ReplaceAt(doc, path, DictV(Without(NodeAt(doc, path).kv, k)))
              /\ edits' = Append(edits, [kind |-> "drop", path |-> path,
                                         key |-> NodeAt(doc, path).kv[k][1]])
    /\ pc' = "corrupted"
    /\ UNCHANGED <<x, hist, res, df, calls, file, heap, env>>

\* One element of a top-level sequence is a scalar; another edit may follow.
BreakElement ==
    /\ pc = "encoded"
    /\ edits = <<>>
    /\ doc.ty = "list"
    /\ \E i \in DOMAIN doc.items :
          /\ doc' = ReplaceAt(doc, <<i>>, IntV(2))
          /\ edits' = <<[kind |-> "element", path |-> <<i>>]>>
    /\ UNCHANGED <<x, hist, res, pc, df, calls, file, heap, env>>

\* The objects whose documents are read back.
SampleContigProcessStatsCollection ==
    {ContigProcessStatsCollection_init(Args(<<ListV(q)>>)) :
        q \in SeqsUpTo(SampleContigProcessStats, MaxLen)}

Objects ==
    UNION {SampleBinMatrixStats, SampleBiPartStats, SampleUnassignedReadStats,
           SamplePostProcessStats, SampleHCAPreStripStatsCollection,
           SampleLowQualityHCAStripStats, SampleLowQualityHCAStripStatsCollection,
           SampleHCAStripStats, SampleHCAStripStatsCollection, SampleHCAProcessStats,
           SampleQBCStripStats, SampleQBCTrashStripStats, SampleQBCStripStatsCollection,
           SampleQBCProcessStats, SampleLociWindowStats, SampleLociWindowProcessStats,
           SampleLociWindowStatsCollection, SampleContigStats, SampleContigProcessStats,
           SampleContigProcessStatsCollection} \ {NoneV}

InitDecode ==
    /\ x \in Objects
    /\ hist = [a |-> <<>>, b |-> <<>>]
    /\ doc = NoneV
    /\ edits = <<>>
    /\ res = NoneV
    /\ pc = "built"
    /\ df = NoDataFrame
    /\ calls = <<>>
    /\ file = NoFile
    /\ heap = <<>>
    /\ env = NoEnv

NextDecode == ToDict \/ ReplaceNode \/ DropKey \/ BreakElement \/ FromDict

SpecDecode == InitDecode /\ [][NextDecode]_vars


(***************************************************************************)
(* Documents with keys the classes do not declare.                         *)
(***************************************************************************)
\* Keys a document may carry besides those from_dict reads: one no class
\* declares, one only the strip classes declare, or both.
ExtraKeys == {<<"comment">>, <<"index">>, <<"comment", "index">>}

\* The pairs of the keys ks, each with a value no decoder reads.
ExtraPairs(ks) == [i \in DOMAIN ks |-> <<ks[i], IntV(7)>>]

\* One mapping of the document has keys of ExtraKeys besides its own, before
\* or after them.
AddKey ==
    /\ pc = "encoded"
    /\ edits = <<>>
    /\ \E path \in {p \in Paths(doc) : NodeAt(doc, p).ty = "dict"},
          ks \in ExtraKeys, first \in BOOLEAN :
              /\ \A i \in DOMAIN ks : ~HasKey(NodeAt(doc, path), ks[i])
              /\ doc' = ReplaceAt(doc, path,
                                  DictV(IF first
                                        THEN ExtraPairs(ks) \o NodeAt(doc, path).kv
                                        ELSE NodeAt(doc, path).kv \o ExtraPairs(ks)))
              /\ edits' = <<[kind |-> "add", path |-> path, keys |-> ks]>>
    /\ UNCHANGED <<x, hist, res, pc, df, calls, file, heap, env>>

NextExtraKeys == ToDict \/ AddKey \/ FromDict

SpecExtraKeys == InitDecode /\ [][NextExtraKeys]_vars
(***************************************************************************)
(* BinMatrixStats.from_bin_dataframe on the boolean matrices of at most    *)
(* MaxRows rows and MaxCols columns.                                       *)
(***************************************************************************)
RECURSIVE Sum(_)
Sum(s) == IF s = <<>> THEN 0 ELSE Head(s) + Sum(Tail(s))

\* (df == v).sum().sum(): the cells equal to v, counted column by column;
\* True == 1 and False == 0.
CountEq(df_, v) ==
    Sum([j \in 1..df_.cols |->
            Sum([i \in 1..df_.rows |-> IF (IF df_.cells[i][j] THEN 1 ELSE 0) = v THEN 1 ELSE 0])])

RECURSIVE GCD(_, _)
GCD(a, b) == IF b = 0 THEN a ELSE GCD(b, a % b)

\* n // d in place of n / d.
FloorDiv(n, d) ==
    IF d = 0 THEN {Error("ZeroDivisionError", "division by zero")}
    ELSE {FloatV(n \div d, 1)}

\* n / d: the exact ratio; with d = 0 the quotient of two numpy integers is
\* nan (a RuntimeWarning is issued), that of two Python ints raises
\* ZeroDivisionError: which one the counts are depends on the pandas build.
TrueDiv(n, d) ==
    IF d = 0 THEN {NaN, Error("ZeroDivisionError", "division by zero")}
    ELSE {FloatV(n \div GCD(n, d), d \div GCD(n, d))}

\* The results from_bin_dataframe(df) can give.
BinMatrixStats_from_bin_dataframe(df_) ==
    {BinMatrixStats_init(Chain(<<IntV(df_.rows), IntV(df_.cols),
                                 IntV(CountEq(df_, 1)), IntV(CountEq(df_, 0)),
                                 density, sparsity>>)) :
        density \in TrueDiv(CountEq(df_, 1), df_.rows * df_.cols),
        sparsity \in TrueDiv(CountEq(df_, 0), df_.rows * df_.cols)}

InitMatrix ==
    /\ x = NoneV
    /\ hist = [a |-> <<>>, b |-> <<>>]
    /\ doc = NoneV
    /\ edits = <<>>
    /\ res = NoneV
    /\ pc = "start"
    /\ calls = <<>>
    /\ file = NoFile
    /\ heap = <<>>
    /\ env = NoEnv
    /\ \E r \in 0..MaxRows, c \in 0..MaxCols :
          \E cells \in [1..r -> [1..c -> BOOLEAN]] : df = DataFrame(r, c, cells)

FromBinDataframe ==
    /\ pc = "start"
    /\ res' \in BinMatrixStats_from_bin_dataframe(df)
    /\ pc' = "decoded"
    /\ UNCHANGED <<x, hist, doc, edits, df, calls, file, heap, env>>

NextMatrix == FromBinDataframe

SpecMatrix == InitMatrix /\ [][NextMatrix]_vars


(***************************************************************************)
(* Objects by reference.  A list, a dict and an instance of a class is an  *)
(* object of the heap; a name, a field, an element of a list and a value   *)
(* of a dict holds a reference to it.  The values of int, bool, float,     *)
(* str, None and BiPartClass cannot be changed and are held as they are.   *)
(***************************************************************************)
Scalar(v) == v.ty \in {"NoneType", "int", "bool", "float", "str", "BiPartClass", "Error"}

\* What is seen through v by following every reference: the lists, dicts and
\* objects with their contents in place of the references.
RECURSIVE View(_, _)
View(h, v) ==
    CASE v.ty = "ref" -> View(h, h[v.a])
      [] Scalar(v) -> v
      [] v.ty = "list" -> ListV([i \in DOMAIN v.items |-> View(h, v.items[i])])
      [] v.ty = "dict" -> DictV([i \in DOMAIN v.kv |-> <<v.kv[i][1], View(h, v.kv[i][2])>>])
      [] OTHER -> [f \in DOMAIN v |-> IF f = "ty" THEN v.ty ELSE View(h, v[f])]

\* The fields of an object in some fixed order.
RECURSIVE FieldSeq(_)
FieldSeqFrom(fs, f) == <<f>> \o FieldSeq(fs \ {f})
FieldSeq(fs) == IF fs = {} THEN <<>> ELSE FieldSeqFrom(fs, CHOOSE f \in fs : TRUE)

\* New objects for the value v and everything in it: the heap after them (the
\* object of v itself is the last one); a scalar and a reference need none.
RECURSIVE StoreNode(_, _)
RECURSIVE StoreItems(_, _, _)
Held(h, v) == IF Scalar(v) \/ v.ty = "ref" THEN v ELSE Ref(Len(h))
StoreItemsNext(h, vs, done) ==
    StoreItems(h, vs, Append(done, Held(h, vs[Len(done) + 1])))
\* The heap after new objects for vs[Len(done) + 1 ..], and what holds them.
StoreItems(h, vs, done) ==
    IF Len(done) = Len(vs) THEN [heap |-> h, items |-> done]
    ELSE StoreItemsNext(StoreNode(h, vs[Len(done) + 1]), vs, done)
StoreList(s) == Append(s.heap, ListV(s.items))
StoreDict(s, kv) == Append(s.heap, DictV([i \in DOMAIN kv |-> <<kv[i][1], s.items[i]>>]))
StoreObject(s, v, fs) ==
    Append(s.heap,
           [f \in DOMAIN v |->
               IF f = "ty" THEN v.ty
               ELSE s.items[CHOOSE i \in DOMAIN fs : fs[i] = f]])
StoreFields(h, v, fs) ==
    StoreObject(StoreItems(h, [i \in DOMAIN fs |-> v[fs[i]]], <<>>), v, fs)
StoreNode(h, v) ==
    CASE Scalar(v) \/ v.ty = "ref" -> h
      [] v.ty = "list" -> StoreList(StoreItems(h, v.items, <<>>))
      [] v.ty = "dict" ->
             StoreDict(StoreItems(h, [i \in DOMAIN v.kv |-> v.kv[i][2]], <<>>), v.kv)
      [] OTHER -> StoreFields(h, v, FieldSeq(DOMAIN v \ {"ty"}))

\* The parameters of cls.__init__ in their order, each with the field it is
\* kept in: "arg" keeps the argument itself (self.__f = f), "list" keeps
\* list(f), or [] for None.
Parameter(field, how) == [field |-> field, how |-> how]
init_parameters(cls) ==
    CASE cls \in {"HCAPreStripStatsCollection", "LowQualityHCAStripStatsCollection"} ->
             <<Parameter("bin_matrix_stats", "list")>>
      [] cls = "LowQualityHCAStripStats" ->
             <<Parameter("strip_number", "arg"), Parameter("number_of_columns", "arg"),
               Parameter("bin_matrices_stats", "list")>>
      [] cls = "HCAStripStats" ->
             <<Parameter("index", "arg"), Parameter("number_of_columns", "arg"),
               Parameter("bipart_stats", "list")>>
      [] cls = "QBCStripStats" ->
             <<Parameter("index", "arg"), Parameter("number_of_columns", "arg"),
               Parameter("bipart_stats", "list"), Parameter("unassigned_reads", "list")>>
      [] cls \in {"HCAStripStatsCollection", "QBCStripStatsCollection"} ->
             <<Parameter("strip_stats", "list")>>
      [] cls = "LociWindowStatsCollection" ->
             <<Parameter("all_loci_window_process_stats", "list")>>
      [] cls = "HCAProcessStats" ->
             <<Parameter("low_quality_prestrips_stats", "arg"),
               Parameter("high_quality_prestrips_stats", "arg"),
               Parameter("low_quality_hca_strip_stats", "arg"),
               Parameter("high_quality_hca_strip_stats", "arg")>>
      [] cls = "QBCProcessStats" ->
             <<Parameter("high_quality_strips_stats", "arg"),
               Parameter("trash_strip_stats", "arg")>>
      [] cls = "ContigProcessStats" ->
             <<Parameter("contig_stats", "arg"), Parameter("loci_windows_stats", "arg")>>

\* list(arg) if arg is not None else []: a new list with the elements of the
\* list arg refers to.
list_copy(h, arg) == ListV(IF IsNone(arg) THEN <<>> ELSE h[arg.a].items)

\* A constructor that keeps the list it is given.
kept_list_argument(arg, a) == IF IsNone(arg) THEN Ref(a) ELSE arg

\* self.__f = list(arg) if arg is not None else []: the field refers to the
\* new list, which is at address a.
kept_list(arg, a) == Ref(a)

\* The positions of the parameters ps that are kept as list(...).
ListParameters(ps) == SelectSeq([i \in DOMAIN ps |-> i], LAMBDA i : ps[i].how = "list")

\* cls(*args): the heap with the new lists, then the new instance (the last
\* object).
ConstructWith(h, cls, args, ps, lp) ==
    h \o [k \in DOMAIN lp |-> list_copy(h, args[lp[k]])]
      \o <<[f \in {"ty"} \cup {ps[i].field : i \in DOMAIN ps} |->
               IF f = "ty" THEN cls
               ELSE IF ps[CHOOSE i \in DOMAIN ps : ps[i].field = f].how = "arg"
               THEN args[CHOOSE i \in DOMAIN ps : ps[i].field = f]
               ELSE kept_list(args[CHOOSE i \in DOMAIN ps : ps[i].field = f],
                              Len(h) + CHOOSE k \in DOMAIN lp : ps[lp[k]].field = f)]>>
Construct(h, cls, args) ==
    ConstructWith(h, cls, args, init_parameters(cls), ListParameters(init_parameters(cls)))

\* cls(*vs) for arguments that are new values or references held already.
ConstructStored(s, cls) == Construct(s.heap, cls, s.items)
New(h, cls, vs) == ConstructStored(StoreItems(h, vs, <<>>), cls)

\* self.__field.append(e) / self.__field.extend(e); e is held already.
list_append(h, a, e) == [h EXCEPT ![a] = ListV(@.items \o <<e>>)]
list_extend(h, a, it) == [h EXCEPT ![a] = ListV(@.items \o h[it.a].items)]
AddStored(s, a, op) ==
    IF op = "append" THEN list_append(s.heap, a, s.items[1])
    ELSE list_extend(s.heap, a, s.items[1])

\* A to_dict that makes no new object.
to_dict_heap_nothing_new(h, self) == h

\* self.to_dict() / self.to_dicts(): every mapping is a dict display and every
\* sequence a list comprehension, so all of them are new objects.
to_dict_heap(h, self) == StoreNode(h, Encode(View(h, self)))

\* cls.from_dict(d) / cls.from_dicts(d): every record is made by a constructor
\* call and every list by list(...) over a generator, so all of them are new
\* objects; the scalars are those of the document.
from_dict_heap(h, cls, d) == StoreNode(h, Decode(cls, View(h, d)))

(***************************************************************************)
(* A caller that keeps a source list, builds a collection or a strip from  *)
(* it (child), a second one without argument (other), hands child to a     *)
(* parent, writes documents and reads them back, and goes on changing what *)
(* it holds.                                                               *)
(***************************************************************************)
\* The classes that keep lists, each with the class of the elements of its
\* (first) list.
ElementClass(cls) ==
    CASE cls \in {"HCAPreStripStatsCollection", "LowQualityHCAStripStats"} -> "BinMatrixStats"
      [] cls = "LowQualityHCAStripStatsCollection" -> "LowQualityHCAStripStats"
      [] cls \in {"HCAStripStats", "QBCStripStats"} -> "BiPartStats"
      [] cls = "HCAStripStatsCollection" -> "HCAStripStats"
      [] cls = "QBCStripStatsCollection" -> "QBCStripStats"
      [] cls = "LociWindowStatsCollection" -> "LociWindowProcessStats"

ListClasses ==
    {"HCAPreStripStatsCollection", "LowQualityHCAStripStats",
     "LowQualityHCAStripStatsCollection", "HCAStripStats", "HCAStripStatsCollection",
     "QBCStripStats", "QBCStripStatsCollection", "LociWindowStatsCollection"}

\* One element of each class a list is made of.
ElementOf(cls) ==
    CASE cls = "BinMatrixStats" -> BMA
      [] cls = "BiPartStats" -> BPB
      [] cls = "UnassignedReadStats" -> URA
      [] cls = "LowQualityHCAStripStats" -> LQB
      [] cls = "HCAStripStats" -> HSB
      [] cls = "QBCStripStats" -> QSB
      [] cls = "LociWindowProcessStats" -> WinNone

\* The arguments of cls(...) with the list argument it (a reference or None).
ArgumentsOf(cls, it) ==
    CASE cls \in {"LowQualityHCAStripStats", "HCAStripStats"} -> <<IntV(0), IntV(3), it>>
      [] cls = "QBCStripStats" -> <<IntV(0), IntV(3), it, NoneV>>
      [] OTHER -> <<it>>

\* The class child is handed to, and the arguments of that constructor call.
ParentClass(cls) ==
    CASE cls \in {"HCAPreStripStatsCollection", "LowQualityHCAStripStatsCollection",
                  "HCAStripStatsCollection"} -> "HCAProcessStats"
      [] cls = "QBCStripStatsCollection" -> "QBCProcessStats"
      [] cls = "LociWindowStatsCollection" -> "ContigProcessStats"
      [] cls = "LowQualityHCAStripStats" -> "LowQualityHCAStripStatsCollection"
      [] cls = "HCAStripStats" -> "HCAStripStatsCollection"
      [] cls = "QBCStripStats" -> "QBCStripStatsCollection"

ParentArguments(cls, child) ==
    CASE cls = "HCAPreStripStatsCollection" -> <<child, PreEmpty, LQCEmpty, HSCEmpty>>
      [] cls = "LowQualityHCAStripStatsCollection" -> <<PreEmpty, PreEmpty, child, HSCEmpty>>
      [] cls = "HCAStripStatsCollection" -> <<PreEmpty, PreEmpty, LQCEmpty, child>>
      [] cls = "QBCStripStatsCollection" -> <<child, NoneV>>
      [] cls = "LociWindowStatsCollection" ->
             <<ContigStats_init(Args(<<StrV(<<"c">>), IntV(5)>>)), child>>
      [] OTHER -> <<ListV(<<child>>)>>

Bound(name) == ~IsNone(env[name])
ClassOf(name) == heap[env[name].a].ty
Last(h) == Ref(Len(h))

\* source = [e, ...]
H_list == \E cls \in ListClasses, n \in 0..1 :
    /\ ~Bound("source") /\ ~Bound("child")
    /\ heap' = StoreNode(heap, ListV([i \in 1..n |-> ElementOf(ElementClass(cls))]))
    /\ env' = [env EXCEPT !.source = Last(heap')]
    /\ UNCHANGED <<x, hist, doc, edits, res, pc, df, calls, file>>

\* child = cls(source), or child = cls() when there is no source list
H_construct == \E cls \in ListClasses :
    /\ ~Bound("child")
    /\ Bound("source") =>
          \A i \in DOMAIN heap[env.source.a].items :
              View(heap, heap[env.source.a].items[i]).ty = ElementClass(cls)
    /\ heap' = Construct(heap, cls, ArgumentsOf(cls, env.source))
    /\ env' = [env EXCEPT !.child = Last(heap')]
    /\ UNCHANGED <<x, hist, doc, edits, res, pc, df, calls, file>>

\* other = cls(), of the class of child
H_construct_default ==
    /\ Bound("child") /\ ~Bound("other") /\ ~Bound("parent")
    /\ heap' = Construct(heap, ClassOf("child"), ArgumentsOf(ClassOf("child"), NoneV))
    /\ env' = [env EXCEPT !.other = Last(heap')]
    /\ UNCHANGED <<x, hist, doc, edits, res, pc, df, calls, file>>

\* source.append(e)
H_source_append ==
    /\ Bound("source") /\ Bound("child")
    /\ Len(calls) < MaxCalls
    /\ heap' = AddStored(StoreItems(heap, <<ElementOf(ElementClass(ClassOf("child")))>>, <<>>),
                         env.source.a, "append")
    /\ calls' = Append(calls, Call("source", "append"))
    /\ UNCHANGED <<x, hist, doc, edits, res, pc, df, file, env>>

\* name.append(e), name.extend(source), name.add_bipart_stats(e), ...
H_add == \E name \in {"child", "other"} :
    /\ Bound(name)
    /\ Len(calls) < MaxCalls
    /\ \E m \in AddMethods(ClassOf(name)) :
          /\ m.op = "extend" => Bound("source")
          /\ heap' = AddStored(StoreItems(heap,
                                          <<IF m.op = "extend" THEN env.source
                                            ELSE IF m.field = "unassigned_reads" THEN URA
                                            ELSE ElementOf(ElementClass(ClassOf(name)))>>,
                                          <<>>),
                               heap[env[name].a][m.field].a, m.op)
          /\ calls' = Append(calls, Call(name, m.name))
    /\ UNCHANGED <<x, hist, doc, edits, res, pc, df, file, env>>

\* child.set_number_of_columns(c)
H_set_number_of_columns == \E c \in Columns :
    /\ Bound("child")
    /\ ClassOf("child") \in {"HCAStripStats", "QBCStripStats"}
    /\ Len(calls) < MaxCalls
    /\ heap[env.child.a].number_of_columns # c
    /\ heap' = [heap EXCEPT ![env.child.a].number_of_columns = c]
    /\ calls' = Append(calls, Call("child", "set_number_of_columns"))
    /\ UNCHANGED <<x, hist, doc, edits, res, pc, df, file, env>>

\* parent = ParentClass(..., child, ...)
H_parent ==
    /\ Bound("child") /\ ~Bound("parent") /\ ~Bound("document")
    /\ heap' = New(heap, ParentClass(ClassOf("child")),
                   ParentArguments(ClassOf("child"), env.child))
    /\ env' = [env EXCEPT !.parent = Last(heap')]
    /\ UNCHANGED <<x, hist, doc, edits, res, pc, df, calls, file>>

\* The name whose to_dict is taken: parent once there is one.
Encoded == IF Bound("parent") THEN "parent" ELSE "child"

\* document = parent.to_dict(), or child.to_dict() before child has a parent
H_to_dict ==
    /\ Bound("child") /\ ~Bound("document")
    /\ heap' = to_dict_heap(heap, env[Encoded])
    /\ env' = [env EXCEPT !.document = Last(heap')]
    /\ UNCHANGED <<x, hist, doc, edits, res, pc, df, calls, file>>

\* The addresses reached from v.
RECURSIVE Reached(_, _)
Reached(h, v) ==
    CASE v.ty = "ref" -> {v.a} \cup Reached(h, h[v.a])
      [] Scalar(v) -> {}
      [] v.ty = "list" -> UNION {Reached(h, v.items[i]) : i \in DOMAIN v.items}
      [] v.ty = "dict" -> UNION {Reached(h, v.kv[i][2]) : i \in DOMAIN v.kv}
      [] OTHER -> UNION {Reached(h, v[f]) : f \in DOMAIN v \ {"ty"}}

\* One list or dict of the document is changed in place: l.append(7),
\* l.pop(), del d[k], d[k] = 7.
H_edit_document == \E a \in Reached(heap, env.document), op \in {"append", "pop", "del", "set"} :
    /\ Bound("document")
    /\ Len(calls) < MaxCalls
    /\ op \in {"append", "pop"} => heap[a].ty = "list"
    /\ op \in {"del", "set"} => heap[a].ty = "dict"
    /\ op = "pop" => heap[a].items # <<>>
    /\ op \in {"del", "set"} => heap[a].kv # <<>>
    /\ heap' =
          CASE op = "append" -> list_append(heap, a, IntV(7))
            [] op = "pop" -> [heap EXCEPT ![a] = ListV(SubSeq(@.items, 1, Len(@.items) - 1))]
            [] op = "del" -> [heap EXCEPT ![a] = DictV(Tail(@.kv))]
            [] op = "set" -> [heap EXCEPT ![a] = DictV([@.kv EXCEPT ![1] = <<@[1], IntV(7)>>])]
    /\ calls' = Append(calls, Call("document", op))
    /\ UNCHANGED <<x, hist, doc, edits, res, pc, df, file, env>>

\* decoded = type(parent).from_dict(document)
H_from_dict ==
    /\ Bound("document") /\ ~Bound("decoded")
    /\ ~IsErr(Decode(ClassOf(Encoded), View(heap, env.document)))
    /\ heap' = from_dict_heap(heap, ClassOf(Encoded), env.document)
    /\ env' = [env EXCEPT !.decoded = Last(heap')]
    /\ UNCHANGED <<x, hist, doc, edits, res, pc, df, calls, file>>

InitHeap ==
    /\ x = NoneV
    /\ hist = [a |-> <<>>, b |-> <<>>]
    /\ doc = NoneV
    /\ edits = <<>>
    /\ res = NoneV
    /\ pc = "start"
    /\ df = NoDataFrame
    /\ calls = <<>>
    /\ file = NoFile
    /\ heap = <<>>
    /\ env = NoEnv

NextHeap ==
    \/ H_list
    \/ H_construct
    \/ H_construct_default
    \/ H_source_append
    \/ H_add
    \/ H_set_number_of_columns
    \/ H_parent
    \/ H_to_dict
    \/ H_edit_document
    \/ H_from_dict

SpecHeap == InitHeap /\ [][NextHeap]_vars
(***************************************************************************)
(* Properties.                                                             *)
(***************************************************************************)
KeysOf(d) == [i \in DOMAIN d.kv |-> d.kv[i][1]]

\* C1: for every record type and every value x of it, from_dict(to_dict(x))
\* (from_dicts(to_dicts(x)) for a collection) is structurally equal to x:
\* every field equal, every nested collection the same elements in the same
\* order.
C1_RoundTrip == (pc = "decoded") => (res = x)

C1_Witness ==
    /\ pc = "decoded"
    /\ x.ty = "ContigProcessStatsCollection"
    /\ x.items = <<CPA, CPB>>
    /\ res = x

HCAEmptyBundle(h) ==
    /\ h.low_quality_prestrips_stats.bin_matrix_stats.items = <<>>
    /\ h.high_quality_prestrips_stats.bin_matrix_stats.items = <<>>
    /\ h.low_quality_hca_strip_stats.bin_matrix_stats.items = <<>>
    /\ h.high_quality_hca_strip_stats.strip_stats.items = <<>>

QBCEmptyBundle(q) ==
    /\ q.high_quality_strips_stats.strip_stats.items = <<>>
    /\ IsNone(q.trash_strip_stats)

\* absent, empty or populated
StageState(v, empty) ==
    IF IsNone(v) THEN "absent" ELSE IF empty THEN "empty" ELSE "populated"

\* C2: each optional stage field of a LociWindowProcessStats keeps, through
\* to_dict / from_dict and whatever the other two are, the one of absent
\* (None), present-but-empty and populated it was built with.
C2_OptionalityPreserved ==
    (pc = "decoded" /\ x.ty = "LociWindowProcessStats") =>
        /\ ~IsErr(res)
        /\ StageState(res.hca_process_stats,
                      ~IsNone(res.hca_process_stats) /\ HCAEmptyBundle(res.hca_process_stats))
             = StageState(x.hca_process_stats,
                          ~IsNone(x.hca_process_stats) /\ HCAEmptyBundle(x.hca_process_stats))
        /\ StageState(res.qbc_process_stats,
                      ~IsNone(res.qbc_process_stats) /\ QBCEmptyBundle(res.qbc_process_stats))
             = StageState(x.qbc_process_stats,
                          ~IsNone(x.qbc_process_stats) /\ QBCEmptyBundle(x.qbc_process_stats))
        /\ IsNone(res.postprocess_stats) = IsNone(x.postprocess_stats)

C2_Witness ==
    /\ pc = "decoded"
    /\ x.ty = "LociWindowProcessStats"
    /\ x.hca_process_stats = HCAEmpty
    /\ IsNone(x.qbc_process_stats)
    /\ x.postprocess_stats = PPA
    /\ res.hca_process_stats = HCAEmpty
    /\ IsNone(res.qbc_process_stats)

\* C3: LociWindowProcessStats.to_dict always writes the four keys
\* loci_window_stats, hca_process_stats, qbc_process_stats and
\* postprocess_stats, a None stage field as a null under its key; and
\* QBCProcessStats.to_dict always writes trash_strip_stats, null when the
\* trash strip is None.
C3_NullKeysWritten ==
    /\ (pc = "encoded" /\ x.ty = "LociWindowProcessStats") =>
          /\ KeysOf(doc) = <<"loci_window_stats", "hca_process_stats",
                             "qbc_process_stats", "postprocess_stats">>
          /\ IsNone(x.hca_process_stats) = IsNone(Lookup(doc, "hca_process_stats"))
          /\ IsNone(x.qbc_process_stats) = IsNone(Lookup(doc, "qbc_process_stats"))
          /\ IsNone(x.postprocess_stats) = IsNone(Lookup(doc, "postprocess_stats"))
    /\ (pc = "encoded" /\ x.ty = "QBCProcessStats") =>
          /\ HasKey(doc, "trash_strip_stats")
          /\ IsNone(x.trash_strip_stats) = IsNone(Lookup(doc, "trash_strip_stats"))

C3_Witness ==
    /\ pc = "encoded"
    /\ x.ty = "LociWindowProcessStats"
    /\ IsNone(x.hca_process_stats)
    /\ IsNone(x.qbc_process_stats)
    /\ IsNone(x.postprocess_stats)
    /\ Lookup(doc, "hca_process_stats") = NoneV
    /\ Lookup(doc, "qbc_process_stats") = NoneV
    /\ Lookup(doc, "postprocess_stats") = NoneV

\* The classes that hold an ordered collection filled by append / extend / add.
OrderedClasses ==
    {"HCAPreStripStatsCollection", "LowQualityHCAStripStatsCollection",
     "HCAStripStatsCollection", "QBCStripStatsCollection",
     "LociWindowStatsCollection", "HCAStripStats", "QBCStripStats"}

\* What iterating the (first) collection of o yields.
Elements(o) ==
    CASE o.ty \in {"HCAPreStripStatsCollection", "LowQualityHCAStripStatsCollection"} ->
             o.bin_matrix_stats.items
      [] o.ty \in {"HCAStripStatsCollection", "QBCStripStatsCollection"} ->
             o.strip_stats.items
      [] o.ty = "LociWindowStatsCollection" -> o.all_loci_window_process_stats.items
      [] o.ty \in {"HCAStripStats", "QBCStripStats"} -> o.bipart_stats.items

\* What iterating the unassigned reads of o yields (nothing for another class).
UnassignedReads(o) ==
    IF o.ty = "QBCStripStats" THEN o.unassigned_reads.items ELSE <<>>

\* C4: a collection built by any sequence of append / extend / add calls
\* yields the inserted elements in insertion order, and so does the
\* collection read back with from_dicts(to_dicts(c)); nothing is reordered,
\* dropped or deduplicated.
C4_InsertionOrder ==
    (pc # "start" /\ x.ty \in OrderedClasses) =>
        /\ Elements(x) = hist.a
        /\ UnassignedReads(x) = hist.b
        /\ (pc = "decoded") =>
              /\ ~IsErr(res)
              /\ Elements(res) = hist.a
              /\ UnassignedReads(res) = hist.b

C4_Witness ==
    /\ pc = "decoded"
    /\ x.ty = "QBCStripStats"
    /\ hist.a = <<BPB, BPB>>
    /\ hist.b = <<URB, URA>>
    /\ Elements(res) = <<BPB, BPB>>
    /\ UnassignedReads(res) = <<URB, URA>>

\* The number of true cells of df.
TrueCells == Cardinality({ij \in (1..df.rows) \X (1..df.cols) : df.cells[ij[1]][ij[2]]})

\* The float f is exactly n / d.
IsRatio(f, n, d) == f.ty = "float" /\ f.den > 0 /\ f.num * d = n * f.den

\* C5: from_bin_dataframe on a boolean matrix of r rows, c columns and k true
\* cells, r * c > 0, gives number_of_rows = r, number_of_columns = c,
\* number_of_ones = k, number_of_zeros = r * c - k, density = k / (r * c) and
\* sparsity = (r * c - k) / (r * c) as exact ratios, so density + sparsity = 1.
C5_MatrixCounts ==
    (pc = "decoded" /\ df.rows * df.cols > 0) =>
        /\ ~IsErr(res)
        /\ res.number_of_rows = IntV(df.rows)
        /\ res.number_of_columns = IntV(df.cols)
        /\ res.number_of_ones = IntV(TrueCells)
        /\ res.number_of_zeros = IntV(df.rows * df.cols - TrueCells)
        /\ IsRatio(res.density, TrueCells, df.rows * df.cols)
        /\ IsRatio(res.sparsity, df.rows * df.cols - TrueCells, df.rows * df.cols)
        /\ res.density.num * res.sparsity.den + res.sparsity.num * res.density.den
             = res.density.den * res.sparsity.den

C5_Witness ==
    /\ pc = "decoded"
    /\ df.rows = 3
    /\ df.cols = 2
    /\ TrueCells = 5
    /\ res.number_of_ones = IntV(5)
    /\ res.number_of_zeros = IntV(1)
    /\ res.density = FloatV(5, 6)
    /\ res.sparsity = FloatV(1, 6)

\* C6: for a matrix with rows * columns = 0, from_bin_dataframe returns a
\* record without dividing by zero: it neither raises nor stores the nan that
\* a division of the counts by a zero cell count gives.
C6_EmptyMatrixSpecialCased ==
    (pc = "decoded" /\ df.rows * df.cols = 0) =>
        /\ ~IsErr(res)
        /\ res.density # NaN
        /\ res.sparsity # NaN

\* C7: a document in which a required key of a node is missing, at any depth
\* and in any contig or window, does not decode: the decode ends with an
\* error and no record (the KeyError of that key when nothing else is wrong
\* with the document).
C7_MissingKeyFails ==
    (pc = "decoded" /\ \E i \in DOMAIN edits : edits[i].kind = "drop") =>
        /\ IsErr(res)
        /\ (Len(edits) = 1) => (res = Error("KeyError", edits[1].key))

C7_Witness ==
    /\ pc = "decoded"
    /\ x.ty = "ContigProcessStatsCollection"
    /\ Len(edits) = 1
    /\ edits[1].kind = "drop"
    /\ edits[1].key = "sparsity"
    /\ Len(edits[1].path) >= 9
    /\ edits[1].path[1] = 2
    /\ res = Error("KeyError", "sparsity")

\* C8: a document with a node of the wrong shape does not decode: a sequence
\* or a scalar where a mapping was written, a mapping or a scalar (an empty
\* mapping and an empty string included) where a sequence was written.
C8_WrongShapeFails ==
    (pc = "decoded" /\ Len(edits) = 1 /\ edits[1].kind = "replace") =>
        /\ (edits[1].was = "dict"
              /\ edits[1].now.ty \in {"list", "int", "bool", "float", "str"}) => IsErr(res)
        /\ (edits[1].was = "list"
              /\ edits[1].now.ty \in {"dict", "int", "bool", "float", "str"}) => IsErr(res)

\* The node edit e replaced is the value of a `class` key.
IsClassEdit(e) ==
    /\ e.kind = "replace"
    /\ e.path # <<>>
    /\ NodeAt(doc, SubSeq(e.path, 1, Len(e.path) - 1)).ty = "dict"
    /\ NodeAt(doc, SubSeq(e.path, 1, Len(e.path) - 1)).kv[e.path[Len(e.path)]][1] = "class"

\* C9: BiPartStats.from_dict gives ZERO for a `class` equal to 0, ONE for one
\* equal to 1 and fails for every other value, so no BiPartStats has another
\* class, and the decode of the strip, window or document around the bipart
\* fails with it (with that ValueError when nothing else is wrong).
C9_ClassOutsideZeroOneFails ==
    (pc = "decoded") =>
        /\ (x.ty = "BiPartStats" /\ ~IsErr(res)) =>
              /\ res.bipart_class \in {ZERO, ONE}
              /\ PyEqInt(Lookup(doc, "class"), BiPartClass_value(res.bipart_class).i)
        /\ \A i \in DOMAIN edits :
              (IsClassEdit(edits[i]) /\ ~PyEqInt(edits[i].now, 0) /\ ~PyEqInt(edits[i].now, 1)) =>
                  /\ IsErr(res)
                  /\ (Len(edits) = 1) => (res = Error("ValueError", "BiPartClass"))
        /\ (Len(edits) = 1 /\ IsClassEdit(edits[1])
              /\ (PyEqInt(edits[1].now, 0) \/ PyEqInt(edits[1].now, 1))) => ~IsErr(res)

C9_Witness ==
    /\ pc = "decoded"
    /\ x.ty = "LociWindowProcessStats"
    /\ Len(edits) = 1
    /\ IsClassEdit(edits[1])
    /\ edits[1].now = IntV(2)
    /\ res = Error("ValueError", "BiPartClass")

\* The contig nodes of doc that do not decode.
InvalidContigs == {i \in DOMAIN doc.items : IsErr(ContigProcessStats_from_dict(doc.items[i]))}

\* No generator is left in v: every list is a list of decoded elements.
RECURSIVE NoGenerator(_)
NoGenerator(v) ==
    CASE v.ty \in {"NoneType", "int", "bool", "float", "str", "dict", "BiPartClass"} -> TRUE
      [] v.ty \in {"list", "ContigProcessStatsCollection"} ->
             \A i \in DOMAIN v.items : NoGenerator(v.items[i])
      [] v.ty \in {"generator", "iterator", "tuple", "Error"} -> FALSE
      [] OTHER -> \A f \in DOMAIN v \ {"ty"} : NoGenerator(v[f])

\* C10: ContigProcessStatsCollection.from_dicts on a sequence of contig
\* nodes either returns the collection of all of them, every nested node
\* decoded and no generator left, or, when some node is invalid, raises the
\* error of the first invalid one and returns no collection.
C10_AllOrNothing ==
    (pc = "decoded" /\ x.ty = "ContigProcessStatsCollection" /\ doc.ty = "list") =>
        IF InvalidContigs = {}
        THEN /\ res.ty = "ContigProcessStatsCollection"
             /\ res.items = [i \in DOMAIN doc.items |-> ContigProcessStats_from_dict(doc.items[i])]
             /\ NoGenerator(res)
        ELSE res = ContigProcessStats_from_dict(doc.items[Min(InvalidContigs)])

C10_Witness ==
    /\ pc = "decoded"
    /\ x.ty = "ContigProcessStatsCollection"
    /\ doc.ty = "list"
    /\ InvalidContigs = {1, 2}
    /\ ContigProcessStats_from_dict(doc.items[1]) # ContigProcessStats_from_dict(doc.items[2])
    /\ res = Error("KeyError", "contig_length")


\* The calls entered after the last call of cls.fn was entered (all of them
\* when there is none).
CallsSince(cls, fn) ==
    SubSeq(calls,
           IF \E i \in DOMAIN calls : calls[i] = Call(cls, fn)
           THEN 1 + CHOOSE i \in DOMAIN calls :
                        /\ calls[i] = Call(cls, fn)
                        /\ \A j \in DOMAIN calls : calls[j] = Call(cls, fn) => j <= i
           ELSE 1,
           Len(calls))

Entered(cs, cls, fn) == \E i \in DOMAIN cs : cs[i] = Call(cls, fn)

\* The contig_length key of a contig node was removed, and no contig node
\* before that one was replaced.
ContigLengthMissing ==
    /\ x.ty \in {"ContigProcessStats", "ContigProcessStatsCollection"}
    /\ \E i \in DOMAIN edits :
          /\ edits[i].kind = "drop"
          /\ edits[i].key = "contig_length"
          /\ \A j \in DOMAIN edits :
                edits[j].kind = "element" => edits[j].path[1] > edits[i].path[1]

\* C11: decoding a document whose contig node has a contig_stats mapping
\* without contig_length raises the KeyError of contig_length, and between
\* the entry of that contig's ContigProcessStats.from_dict and the error no
\* window collection and no window is decoded.
C11_ContigLengthBeforeWindows ==
    (pc = "decoded" /\ ContigLengthMissing) =>
        /\ res = Error("KeyError", "contig_length")
        /\ HasRaised(calls)
        /\ calls[Len(calls) - 1] = Call("ContigStats", "from_dict")
        /\ ~Entered(CallsSince("ContigProcessStats", "from_dict"),
                    "LociWindowProcessStats", "from_dict")
        /\ ~Entered(CallsSince("ContigProcessStats", "from_dict"),
                    "LociWindowStatsCollection", "from_dicts")

C11_Witness ==
    /\ pc = "decoded"
    /\ x.ty = "ContigProcessStatsCollection"
    /\ x.items = <<CPB, CPA>>
    /\ ContigLengthMissing
    /\ edits[1].path[1] = 2
    /\ Entered(calls, "LociWindowProcessStats", "from_dict")
    /\ res = Error("KeyError", "contig_length")

MatrixKeys ==
    {"number_of_rows", "number_of_columns", "number_of_ones", "number_of_zeros",
     "density", "sparsity"}

\* The value the accessor named key returns on the BinMatrixStats self.
MatrixValue(self, key) ==
    CASE key = "number_of_rows" -> self.number_of_rows
      [] key = "number_of_columns" -> self.number_of_columns
      [] key = "number_of_ones" -> self.number_of_ones
      [] key = "number_of_zeros" -> self.number_of_zeros
      [] key = "density" -> self.density
      [] key = "sparsity" -> self.sparsity

\* C12: BinMatrixStats.from_dict on a matrix node either fails or gives a
\* record whose six accessors return the six values of the node as they are,
\* also when the counts do not add up to rows * columns or the ratios do not
\* match the counts; and to_dict of that record gives the same six values.
C12_MatrixNotCorrected ==
    (pc = "decoded" /\ x.ty = "BinMatrixStats") =>
        \/ IsErr(res)
        \/ /\ res.ty = "BinMatrixStats"
           /\ \A key \in MatrixKeys :
                 /\ MatrixValue(res, key) = Lookup(doc, key)
                 /\ Lookup(BinMatrixStats_to_dict(res), key) = Lookup(doc, key)

C12_Witness ==
    /\ pc = "decoded"
    /\ x = BMA
    /\ Len(edits) = 1
    /\ edits[1].kind = "replace"
    /\ edits[1].path = <<3>>
    /\ Lookup(doc, "number_of_ones") = IntV(2)
    /\ Lookup(doc, "number_of_zeros") = IntV(7)
    /\ Lookup(doc, "number_of_rows") = IntV(4)
    /\ Lookup(doc, "number_of_columns") = IntV(3)
    /\ res.number_of_ones = IntV(2)
    /\ res.number_of_zeros = IntV(7)
    /\ BinMatrixStats_to_dict(res) = doc

\* The class that is not c.
Other(c) == IF c = ZERO THEN ONE ELSE ZERO

\* C13: complement is defined on both classes, gives ONE on ZERO and ZERO on
\* ONE, gives the class it started from when applied twice, and a call of it
\* leaves the BiPartStats whose class it was called on as it was.
C13_ComplementInvolution ==
    /\ [](pc = "returned" /\ x.ty = "BiPartStats"
            /\ calls # <<>> /\ calls[1] = Call("BiPartClass", "complement") =>
            /\ x.bipart_class \in {ZERO, ONE}
            /\ res \in {ZERO, ONE}
            /\ res = IF Len(calls) % 2 = 1 THEN Other(x.bipart_class) ELSE x.bipart_class)
    /\ [][(calls' # calls /\ calls'[Len(calls')] = Call("BiPartClass", "complement")) =>
             x' = x]_vars

C13_Witness ==
    /\ pc = "returned"
    /\ x.ty = "BiPartStats"
    /\ x.bipart_class = ONE
    /\ calls = <<Call("BiPartClass", "complement"), Call("BiPartClass", "complement")>>
    /\ res = ONE

\* The ordered collections: the class and the field that holds the list.
OrderedCollections ==
    {<<"HCAPreStripStatsCollection", "bin_matrix_stats">>,
     <<"LowQualityHCAStripStatsCollection", "bin_matrix_stats">>,
     <<"HCAStripStatsCollection", "strip_stats">>,
     <<"QBCStripStatsCollection", "strip_stats">>,
     <<"QBCStripStats", "unassigned_reads">>}

\* Some method of cls does op on the list kept in field.
Offers(cls, field, op) ==
    \E m \in QueryMethods(cls) \cup AddMethods(cls) : m.field = field /\ m.op = op

\* C14: each ordered collection (pre-partition matrices, low-quality strips,
\* high-quality HCA and QBC strips, the unassigned reads of a QBC strip) has
\* a method to append one element, to extend with many, to give its length,
\* to give the element at an index and to iterate, so no append or extend
\* call on one of the collection classes fails for want of the method.
C14_SixOperations ==
    (pc \in {"built", "returned"}) =>
        /\ \A c \in OrderedCollections :
              (x.ty = c[1]) =>
                  \A op \in {"append", "extend", "len", "getitem", "iter"} :
                      Offers(c[1], c[2], op)
        /\ (pc = "returned" /\ x.ty \in {c[1] : c \in OrderedCollections} \ {"QBCStripStats"}) =>
              ~(IsErr(res) /\ res.exc = "AttributeError")

\* The fields of the object o that do not hold a list.
ScalarFields(o) == {f \in DOMAIN o \ {"ty", "items"} : o[f].ty # "list"}

\* The step is the call x.set_number_of_columns(n).
SetNumberOfColumns(n) ==
    /\ pc = "built"
    /\ \/ x.ty = "HCAStripStats" /\ x' = HCAStripStats_set_number_of_columns(x, n)
       \/ x.ty = "QBCStripStats" /\ x' = QBCStripStats_set_number_of_columns(x, n)
    /\ calls' = Append(calls, Call(x.ty, "set_number_of_columns"))

\* C15: set_number_of_columns(n) on an HCA or a QBC strip makes
\* number_of_columns n, in the strip and in its to_dict, and leaves the index,
\* the biparts and the unassigned reads as they were; and no other step
\* changes a field that is not a list of an object already constructed.
C15_OnlyColumnsSettable ==
    [][/\ \A n \in Columns :
             SetNumberOfColumns(n) =>
                 /\ x'.number_of_columns = n
                 /\ Lookup(Encode(x'), "number_of_columns") = n
                 /\ x'.index = x.index
                 /\ x'.bipart_stats = x.bipart_stats
                 /\ Lookup(Encode(x'), "bipart_stats") = Lookup(Encode(x), "bipart_stats")
                 /\ (x.ty = "QBCStripStats") =>
                       /\ x'.unassigned_reads = x.unassigned_reads
                       /\ Lookup(Encode(x'), "unassigned_reads")
                            = Lookup(Encode(x), "unassigned_reads")
       /\ (~IsNone(x) /\ x' # x) =>
             /\ x'.ty = x.ty
             /\ DOMAIN x' = DOMAIN x
             /\ \A f \in ScalarFields(x) :
                   (x'[f] # x[f]) =>
                       /\ f = "number_of_columns"
                       /\ \E n \in Columns : SetNumberOfColumns(n)]_vars

C15_Witness ==
    /\ pc = "encoded"
    /\ x.ty = "QBCStripStats"
    /\ calls = <<Call("QBCStripStats", "set_number_of_columns")>>
    /\ x.number_of_columns = IntV(6)
    /\ x.bipart_stats.items = <<BPA, BPB>>
    /\ x.unassigned_reads.items = <<URA>>
    /\ Lookup(doc, "number_of_columns") = IntV(6)
    /\ Len(Lookup(doc, "unassigned_reads").items) = 1

\* The keys of each class's node, in the order the document format declares
\* them.
DeclaredKeys(cls) ==
    CASE cls = "ContigProcessStats" -> <<"contig_stats", "loci_windows_stats">>
      [] cls = "ContigStats" -> <<"contig_name", "contig_length">>
      [] cls = "LociWindowProcessStats" ->
             <<"loci_window_stats", "hca_process_stats", "qbc_process_stats",
               "postprocess_stats">>
      [] cls = "LociWindowStats" -> <<"start_pos", "stop_pos">>
      [] cls = "HCAProcessStats" ->
             <<"low_quality_prestrips_stats", "high_quality_prestrips_stats",
               "low_quality_hca_strip_stats", "high_quality_hca_strip_stats">>
      [] cls = "QBCProcessStats" -> <<"high_quality_strips_stats", "trash_strip_stats">>
      [] cls = "PostProcessStats" ->
             <<"number_of_initial_haplotypes", "number_of_low_quality_haplotypes",
               "number_of_final_haplotypes">>
      [] cls = "BinMatrixStats" ->
             <<"number_of_rows", "number_of_columns", "number_of_ones",
               "number_of_zeros", "density", "sparsity">>
      [] cls = "BiPartStats" -> <<"index", "class", "binmatrix_stats">>
      [] cls = "QBCStripStats" ->
             <<"index", "number_of_columns", "bipart_stats", "unassigned_reads">>
      [] cls = "HCAStripStats" -> <<"index", "number_of_columns", "bipart_stats">>
      [] cls = "LowQualityHCAStripStats" ->
             <<"strip_number", "number_of_columns", "bin_matrices_stats">>
      [] cls = "QBCTrashStripStats" -> <<"index", "matrix_stats">>
      [] cls = "UnassignedReadStats" -> <<"read_id", "number_of_ones", "number_of_zeros">>

RecordClasses ==
    {"ContigProcessStats", "ContigStats", "LociWindowProcessStats", "LociWindowStats",
     "HCAProcessStats", "QBCProcessStats", "PostProcessStats", "BinMatrixStats",
     "BiPartStats", "QBCStripStats", "HCAStripStats", "LowQualityHCAStripStats",
     "QBCTrashStripStats", "UnassignedReadStats"}

\* The keys of the mappings of node, a mapping's own keys each followed by
\* the keys inside its value, in the order they are met.
RECURSIVE KeysInOrder(_)
KeysInOrder(node) ==
    CASE node.ty = "dict" ->
             Concat([i \in DOMAIN node.kv |-> <<node.kv[i][1]>> \o KeysInOrder(node.kv[i][2])],
                    Len(node.kv))
      [] node.ty = "list" ->
             Concat([i \in DOMAIN node.items |-> KeysInOrder(node.items[i])],
                    Len(node.items))
      [] OTHER -> <<>>

\* The keys of the text, in the order they are written.
KeyTokens(text) == SelectSeq(text, LAMBDA t : t.ty = "token" /\ t.kind = "key")
KeysWritten(text) == [i \in DOMAIN KeyTokens(text) |-> KeyTokens(text)[i].s]

\* C16: every mapping that to_dict / to_dicts writes, at every depth, has its
\* keys in the declaration order of the document format (which for several
\* of them is not the alphabetical one), and the file to_yaml writes has the
\* keys in that same order.
C16_DeclarationOrder ==
    /\ (pc = "encoded") =>
          /\ (x.ty \in RecordClasses) => (KeysOf(doc) = DeclaredKeys(x.ty))
          /\ \A p \in Paths(doc) :
                (NodeAt(doc, p).ty = "dict") =>
                    \E cls \in RecordClasses : KeysOf(NodeAt(doc, p)) = DeclaredKeys(cls)
    /\ (pc = "written") => (KeysWritten(file.text) = KeysInOrder(Encode(x)))

C16_Witness ==
    /\ pc = "written"
    /\ x.ty = "ContigProcessStatsCollection"
    /\ x.items = <<CPB>>
    /\ KeysWritten(file.text)
         = <<"contig_stats", "contig_name", "contig_length", "loci_windows_stats",
             "loci_window_stats", "start_pos", "stop_pos", "hca_process_stats",
             "qbc_process_stats", "postprocess_stats">>

\* The lengths of the collections of v at every nesting level: a list by its
\* length and what its elements give, an object by what its fields give, any
\* other value by whether it is None.
RECURSIVE Lengths(_)
Lengths(v) ==
    CASE v.ty \in {"list", "ContigProcessStatsCollection"} ->
             [len |-> Len(v.items), of |-> [i \in DOMAIN v.items |-> Lengths(v.items[i])]]
      [] v.ty \in {"NoneType", "int", "bool", "float", "str", "BiPartClass", "Error"} ->
             [none |-> IsNone(v)]
      [] OTHER -> [f \in DOMAIN v \ {"ty"} |-> Lengths(v[f])]

\* What the method of self named name, one that gives a length, returns.
LengthBy(self, name) ==
    Query(self, CHOOSE m \in QueryMethods(self.ty) : m.name = name /\ m.op = "len", 0)

\* C17: from_dict(to_dict(x)) has, at every nesting level, collections of the
\* lengths x has: as many contigs, as many windows in each contig (contigs
\* with different numbers of windows included), and for a QBCProcessStats
\* without trash strip still no trash strip and in each strip the same
\* number_of_biparts() and number_of_unassigned_reads().
C17_LengthsPreserved ==
    (pc = "decoded") =>
        /\ ~IsErr(res)
        /\ Lengths(res) = Lengths(x)
        /\ (x.ty = "ContigProcessStatsCollection") =>
              /\ Len(res.items) = Len(x.items)
              /\ \A i \in DOMAIN x.items :
                    Len(res.items[i].loci_windows_stats.all_loci_window_process_stats.items)
                      = Len(x.items[i].loci_windows_stats.all_loci_window_process_stats.items)
        /\ (x.ty = "QBCProcessStats" /\ IsNone(x.trash_strip_stats)) =>
              /\ IsNone(res.trash_strip_stats)
              /\ Len(res.high_quality_strips_stats.strip_stats.items)
                   = Len(x.high_quality_strips_stats.strip_stats.items)
              /\ \A i \in DOMAIN x.high_quality_strips_stats.strip_stats.items :
                    /\ LengthBy(res.high_quality_strips_stats.strip_stats.items[i],
                                "number_of_biparts")
                         = LengthBy(x.high_quality_strips_stats.strip_stats.items[i],
                                    "number_of_biparts")
                    /\ LengthBy(res.high_quality_strips_stats.strip_stats.items[i],
                                "number_of_unassigned_reads")
                         = LengthBy(x.high_quality_strips_stats.strip_stats.items[i],
                                    "number_of_unassigned_reads")

C17_Witness ==
    /\ pc = "decoded"
    /\ x.ty = "QBCProcessStats"
    /\ IsNone(x.trash_strip_stats)
    /\ Len(x.high_quality_strips_stats.strip_stats.items) = 1
    /\ IsNone(res.trash_strip_stats)
    /\ LengthBy(res.high_quality_strips_stats.strip_stats.items[1], "number_of_biparts")
         = IntV(2)
    /\ LengthBy(res.high_quality_strips_stats.strip_stats.items[1],
                "number_of_unassigned_reads") = IntV(1)

C19_AccessorsReadOnly ==
    [][(pc' = "returned") => (Encode(x') = Encode(x))]_vars

\* The node classes whose mappings have child nodes.
LevelClasses ==
    {"ContigProcessStats", "LociWindowProcessStats", "HCAProcessStats",
     "QBCProcessStats", "LowQualityHCAStripStats", "HCAStripStats",
     "QBCStripStats", "QBCTrashStripStats"}

\* The document read back is the mapping of one node with one key removed.
RootKeyMissing(key) ==
    /\ x.ty \in LevelClasses
    /\ Len(edits) = 1
    /\ edits[1].kind = "drop"
    /\ edits[1].path = <<>>
    /\ edits[1].key = key

\* C20: a node's required keys are checked before any of its children is
\* decoded: when the mapping of a contig, window, bundle or strip node lacks
\* one of its keys, from_dict of that node raises before it calls from_dict or
\* from_dicts of any child; a window node without postprocess_stats or
\* qbc_process_stats is rejected before HCAProcessStats.from_dict is entered.
C20_KeysCheckedBeforeDescending ==
    (pc = "decoded" /\ \E i \in DOMAIN KeysSorted : RootKeyMissing(KeysSorted[i])) =>
        /\ IsErr(res)
        /\ \A i \in 2..Len(calls) : calls[i] = Raised

\* C22: every PostProcessStats that was constructed, and every one that
\* from_dict returned, has number_of_final_haplotypes and
\* number_of_low_quality_haplotypes at most number_of_initial_haplotypes.
HaplotypesBounded(p) ==
    /\ p.number_of_final_haplotypes.i <= p.number_of_initial_haplotypes.i
    /\ p.number_of_low_quality_haplotypes.i <= p.number_of_initial_haplotypes.i

C22_HaplotypesBounded ==
    /\ (pc \in {"built", "encoded", "decoded"} /\ x.ty = "PostProcessStats")
          => HaplotypesBounded(x)
    /\ (pc = "decoded" /\ res.ty = "PostProcessStats") => HaplotypesBounded(res)

\* a == b for two document nodes: two dicts are equal when they have the same
\* keys with equal values, in whatever order; two lists when they have equal
\* elements in the same order.
RECURSIVE PyEq(_, _)
PyEq(a, b) ==
    IF a.ty # b.ty THEN FALSE
    ELSE IF a.ty = "dict"
    THEN /\ Len(a.kv) = Len(b.kv)
         /\ \A i \in DOMAIN a.kv :
               /\ HasKey(b, a.kv[i][1])
               /\ PyEq(a.kv[i][2], Lookup(b, a.kv[i][1]))
    ELSE IF a.ty = "list"
    THEN /\ Len(a.items) = Len(b.items)
         /\ \A i \in DOMAIN a.items : PyEq(a.items[i], b.items[i])
    ELSE a = b

\* C25: a document that has, in any of its mappings, keys besides those the
\* node's class reads decodes without error to the record the document
\* without them decodes to; to_dict of that record has none of the additional
\* keys, so it equals the document read exactly when the document had none.
C25_ExtraKeysIgnored ==
    (pc = "decoded") =>
        /\ ~IsErr(res)
        /\ res = Decode(x.ty, Encode(x))
        /\ Encode(res) = Encode(x)
        /\ PyEq(Encode(res), doc) <=> (edits = <<>>)

C25_Witness ==
    /\ pc = "decoded"
    /\ x.ty = "ContigProcessStatsCollection"
    /\ edits # <<>>
    /\ Len(edits[1].path) > 2
    /\ Len(edits[1].keys) = 2
    /\ res = x

\* The call the step makes on the object bound to name is one of the methods
\* that add to a list.
Adds(name) ==
    /\ calls' # calls
    /\ calls'[Len(calls')][1] = name
    /\ calls'[Len(calls')][2] \in {"append", "extend", "add_bipart_stats", "add_unassigned_read"}

\* C21: once a collection or a strip was given to the constructor of its
\* parent, no append / extend / add call on it changes what to_dict of the
\* parent returns.
C21_FrozenOnceHanded ==
    [][(Bound("parent") /\ Adds("child"))
           => Encode(View(heap', env.parent)) = Encode(View(heap, env.parent))]_vars

\* The lists the caller holds: its source list, and the collections or strips
\* it built from it and without argument.
Lists == {"source", "child", "other"}

\* The step is a call on the object bound to name.
CallOn(name) == calls' # calls /\ calls'[Len(calls')][1] = name

\* C24: the constructors that keep a list copy their argument, and make a
\* new empty list when it is None: a call that adds to the source list, to
\* the collection (or strip) built from it, or to a second one built without
\* argument changes what is seen through that name only, not through the
\* other two.
C24_ConstructorsCopy ==
    [][\A name \in Lists : \A kept \in Lists \ {name} :
           (CallOn(name) /\ Bound(kept))
               => View(heap', env[kept]) = View(heap, env[kept])]_vars

C24_Witness ==
    /\ Bound("source") /\ Bound("child") /\ Bound("other")
    /\ calls = <<Call("source", "append"), Call("other", "append")>>
    /\ View(heap, env.child).ty = "HCAStripStatsCollection"
    /\ View(heap, env.child).strip_stats.items = <<HSB>>
    /\ View(heap, env.source).items = <<HSB, HSB>>
    /\ View(heap, env.other).strip_stats.items = <<HSB>>

\* C23: documents and records share no list and no dict: a change made in
\* place to any list or dict of a document that to_dict returned changes
\* neither the records it was taken from (so a later to_dict gives what the
\* first gave) nor the records decoded from it, and a call that changes a
\* record changes neither the document written before nor the records
\* decoded from it.
C23_NothingShared ==
    [][/\ CallOn("document") =>
             \A name \in {"child", "other", "parent", "decoded", "source"} :
                 Bound(name) => View(heap', env[name]) = View(heap, env[name])
       /\ (CallOn("child") \/ CallOn("other") \/ CallOn("source")) =>
             \A name \in {"document", "decoded"} :
                 Bound(name) => View(heap', env[name]) = View(heap, env[name])]_vars

C23_Witness ==
    /\ Bound("parent") /\ Bound("document") /\ Bound("decoded")
    /\ calls = <<Call("document", "append"), Call("child", "add_bipart_stats")>>
    /\ ClassOf("parent") = "QBCStripStatsCollection"
    /\ ClassOf("decoded") = "QBCStripStatsCollection"
    /\ Len(View(heap, env.document).items) = 2
    /\ View(heap, env.decoded).strip_stats.items[1].bipart_stats.items = <<>>
    /\ View(heap, env.parent).strip_stats.items[1].bipart_stats.items = <<BPB>>
    /\ Encode(View(heap, env.decoded)) # Encode(View(heap, env.parent))
====
